---- MODULE Spec2Model ----
(***************************************************************************)
(* A model of the Fagun browser-automation testing agent:                  *)
(*   - APIManager (Fagun.py): dual provider keys with quota fallback,      *)
(*   - the CLI run loop of main() (Fagun.py),                              *)
(*   - TestReportGenerator.add_test_step / add_finding (Fagun.py),         *)
(*   - BrowserUseAgent.run and its automatic PDF report                    *)
(*     (src/agent/browser_use/browser_use_agent.py),                       *)
(*   - the agent fan-out of Vibetest.py,                                   *)
(*   - the error monitor and screenshot capture singletons (src/utils),    *)
(*   - AdvancedErrorHandler.attempt_error_recovery (src/utils),            *)
(*   - SiteAuditor.audit (src/utils/site_audit.py),                        *)
(*   - AdvancedTestingEngine.check_broken_urls (src/utils),                *)
(*   - CredentialManager's catalog (src/utils/credential_manager.py),      *)
(*   - IntelligentFormTester's scenario execution (src/utils),             *)
(*   - ErrorMonitor's event handlers and injected script (src/utils),      *)
(*   - ScreenshotCapture's capture methods (src/utils),                    *)
(*   - the shared EnhancedAITestingEngine (src/utils).                     *)
(* Each subsystem has its own specification over the shared variables.     *)
(***************************************************************************)
EXTENDS Integers, Sequences, FiniteSets, TLC

VARIABLES
    \* ---- APIManager (Fagun.py:22-26)
    gemini_key,         \* "None" or "key": os.getenv("GEMINI_API_KEY")
    grok_key,           \* "None" or "key": os.getenv("GROK_API_KEY")
    current_provider,   \* "gemini" | "grok"
    quota_exceeded,     \* set FALSE by __init__, never written again
    constructible,      \* environment: can a client of the provider be constructed
    calls,              \* log of the APIManager calls made so far
    \* ---- main() run loop (Fagun.py:2661-2789)
    main_pc,            \* "init" | "no_prompt" | "no_keys" | "loop" | "post" | "returned" | "failed"
    attempt,            \* the for-loop variable of the retry loop
    invocations,        \* number of agent.run() invocations made
    agent_llm,          \* provider of the client the current Agent was built with
    failures_log,       \* one record per failed agent.run()
    surfaced,           \* the exception main()'s outer handler received ("None" if none)
    main_exit,          \* how main() ended: "None" while it runs
    report_files,       \* the report files written by generate_html_report
    \* ---- TestReportGenerator.test_results (Fagun.py:522-586)
    test_steps,         \* test_results['test_steps']
    findings,           \* test_results['findings']: category -> list of findings
    summary,            \* test_results['summary'] counters
    finding_calls,      \* number of add_finding calls made, per category passed
    report_ops,         \* number of report-generator calls made
    end_time,           \* test_results['end_time']: "None" until finalize_report
    finalize_count,     \* number of finalize_report calls made
    mutated_after_final, \* a step or a finding was added after finalize_report
    \* ---- BrowserUseAgent.run, one entry per agent (browser_use_agent.py:77-232)
    run_pc,             \* where the agent's run() is
    step_idx,           \* `step`, the for-loop variable
    steps_executed,     \* number of self.step() calls made
    consecutive_failures, \* self.state.consecutive_failures
    paused,             \* self.state.paused
    stopped,            \* self.state.stopped
    history,            \* self.state.history.history
    validation_failures, \* number of failed _validate_output() calls
    exit_reason,        \* how the try block was left
    cleanup,            \* what the finally block did
    monitoring_active,  \* error_monitor.monitoring_active (one module-level instance)
    validate_output,    \* self.settings.validate_output
    generate_gif,       \* self.settings.generate_gif
    \* ---- the Vibetest fan-out (Vibetest.py:60-248)
    fan_mode,           \* "cli" (main) | "mcp" (vibetest_run)
    fan_agents,         \* number of agent tasks started
    fan_pc,             \* "gathering" | "collected" | "raised"
    task_pc,            \* per agent_id: "pending" | "running" | "returned" | "raised"
    task_result,        \* per agent_id: what the task returned or raised
    headless_env,       \* os.environ["BROWSER_USE_HEADLESS"], one per process
    agent_config,       \* per agent_id: what its Agent was constructed with
    fan_out,            \* what the entry point collected
    helpers,            \* whether the import of Fagun's helpers succeeded
    \* ---- the module-level ErrorMonitor and ScreenshotCapture instances
    \*      (error_monitor.py:615, screenshot_capture.py:247)
    monitor_errors,     \* error_monitor.errors: the agent whose page each came from
    screenshots,        \* screenshot_capture.screenshots: the agent each was taken for
    cdp_session,        \* error_monitor.cdp_session: the agent whose session it is
    cdp_handlers,       \* per agent: the handlers registered on its session
    report_data,        \* per agent: the errors and screenshots of its report payload
    \* ---- AdvancedErrorHandler (advanced_error_handler.py:39-364)
    recovery_attempts,  \* self.recovery_attempts: recovery key -> attempts made
    recovery_calls,     \* number of attempt_error_recovery calls made
    last_recovery,      \* what attempt_error_recovery did last: begin a call, or return
    recovery_pending,   \* recovery key -> calls awaiting in their strategy
    \* ---- SiteAuditor.audit (site_audit.py:29-100)
    start_url,          \* the seed
    max_pages,          \* the page budget
    max_depth,          \* the depth budget
    visited,            \* `visited`
    queue,              \* `queue`: pairs <<url, depth>>
    pages_summary,      \* `pages_summary`: the pages gone to, with their depth
    audit_page,         \* `url`, `depth` of the iteration under way
    audit_pc,           \* "idle" | "loop" | "page" | "form" | "returned"
    \* ---- AdvancedTestingEngine.check_broken_urls (advanced_testing.py:608-687)
    url_results,        \* `results`
    links_left,         \* the links of the page not yet looked at
    last_probe,         \* the last request made and what was recorded for it
    url_pc,             \* "idle" | "loop" | "returned"
    \* ---- CredentialManager (credential_manager.py)
    credential_sets,     \* `credential_sets`
    \* ---- IntelligentFormTester (intelligent_form_testing.py)
    testing_stats,      \* `testing_stats`
    test_results,       \* `test_results`
    form_results,       \* `results` of the execute_test_scenarios call under way
    scenarios_left,     \* the scenarios that call has still to run
    form_calls,         \* calls of execute_test_scenarios on this tester
    form_recoveries,    \* recovery_attempts of the tester's error handler
    form_pending,       \* the exception of the scenario being handled
    form_pc,            \* "idle" | "running" | "handling" | "recovering" | "retrying" |
                        \* "done" | "raised"
    evaluations,         \* calls of _evaluate_test_result: <<expected, actual, verdict>>
    \* ---- ErrorMonitor's event handling (error_monitor.py)
    em_active,          \* `monitoring_active`
    em_session,         \* `cdp_session`: the session of the last start that got one
    em_sessions,        \* per session: "none" | "attached" | "detaching" | "detached"
    em_handlers,        \* per session: the handlers registered on it, in order
    em_start_pc,        \* per start_monitoring call: where it is
    em_errors,          \* `errors`
    em_js_errors,       \* `js_errors`
    em_console_errors,  \* `console_errors`
    em_network_errors,  \* `network_errors`
    em_performance_issues, \* `performance_issues`
    exception_events,   \* Runtime.exceptionThrown events delivered
    em_events,          \* events of every kind so far
    parses_z,           \* the interpreter's datetime.fromisoformat accepts a "Z" suffix
    script_registered,  \* how many times the detection script is an init script of the page
    script_present,     \* how many times the script has run in the document
    page_buffer,        \* window.fagunErrorMonitor.errors
    injected_returns,    \* what each get_injected_errors call returned
    \* ---- one ScreenshotCapture (screenshot_capture.py)
    captured,           \* `screenshots` of the instance
    capture_calls,      \* calls of the three capture methods
    last_capture,        \* what the last call returned
    \* ---- the shared EnhancedAITestingEngine (enhanced_ai_testing.py)
    bugs_found,         \* `bugs_found`, the one list of the module-level engine
    engine_pc,          \* per agent run: "idle" | "testing" | "returned"
    engine_calls,       \* per agent run: calls of run_comprehensive_testing
    found_in_call,      \* per agent run: the bugs its last call added
    bug_count           \* bugs reported so far

apiVars == <<gemini_key, grok_key, current_provider, quota_exceeded, constructible, calls>>
mainVars == <<main_pc, attempt, invocations, agent_llm, failures_log, surfaced,
              main_exit, report_files>>
reportVars == <<test_steps, findings, summary, finding_calls, report_ops,
                end_time, finalize_count, mutated_after_final>>
runVars == <<run_pc, step_idx, steps_executed, consecutive_failures, paused, stopped,
             history, validation_failures, exit_reason, cleanup, monitoring_active,
             validate_output, generate_gif>>
fanVars == <<fan_mode, fan_agents, fan_pc, task_pc, task_result, headless_env,
             agent_config, fan_out, helpers>>
monitorVars == <<monitor_errors, screenshots, cdp_session, cdp_handlers, report_data>>
\* The utilities that the agent run does not touch
recoveryVars == <<recovery_attempts, recovery_calls, last_recovery, recovery_pending>>
crawlVars == <<start_url, max_pages, max_depth, visited, queue, pages_summary,
               audit_page, audit_pc>>
probeVars == <<url_results, links_left, last_probe, url_pc>>
credVars == <<credential_sets>>
formVars == <<testing_stats, test_results, form_results, scenarios_left, form_calls, form_recoveries, form_pending, form_pc, evaluations>>
\* The monitor's sessions, its lists, and the page with the injected script
emSessionVars == <<em_active, em_session, em_sessions, em_handlers, em_start_pc>>
emListVars == <<em_errors, em_js_errors, em_console_errors, em_network_errors,
                em_performance_issues>>
emPageVars == <<parses_z, script_registered, script_present, page_buffer, injected_returns>>
errmonVars == <<emSessionVars, emListVars, exception_events, em_events, emPageVars>>
shotVars == <<captured, capture_calls, last_capture>>
bugsVars == <<bugs_found, engine_pc, engine_calls, found_in_call, bug_count>>
toolVars == <<credVars, formVars, errmonVars, shotVars, bugsVars>>
utilVars == <<fanVars, recoveryVars, crawlVars, probeVars, toolVars>>
\* The utilities but one
nonFanVars == <<recoveryVars, crawlVars, probeVars, toolVars>>
nonRecoveryVars == <<fanVars, crawlVars, probeVars, toolVars>>
nonCrawlVars == <<fanVars, recoveryVars, probeVars, toolVars>>
nonProbeVars == <<fanVars, recoveryVars, crawlVars, toolVars>>
\* Everything but the tools
nonToolVars == <<apiVars, mainVars, reportVars, runVars, monitorVars,
                 fanVars, recoveryVars, crawlVars, probeVars>>
\* The tools but one
nonCredVars == <<formVars, errmonVars, shotVars, bugsVars>>
nonFormVars == <<credVars, errmonVars, shotVars, bugsVars>>
nonErrmonVars == <<credVars, formVars, shotVars, bugsVars>>
nonShotVars == <<credVars, formVars, errmonVars, bugsVars>>
nonBugsVars == <<credVars, formVars, errmonVars, shotVars>>
extVars == <<utilVars, monitorVars>>
vars == <<apiVars, mainVars, reportVars, runVars, extVars>>

\* ------------------------------------------------------------------ bounds
\* Number of APIManager calls explored in one behaviour.
MaxCalls == 3
\* Depth at which the interpreter stops a recursion (RecursionError).
RecursionLimit == 3
\* Number of report-generator calls explored in one behaviour.
MaxReportOps == 3
\* max_steps, the step budget handed to run().
MaxSteps == 3
\* self.settings.max_failures, the threshold of consecutive step failures.
MaxFailures == 2

\* ------------------------------------------------------------------ strings
\* Error messages are sequences of characters, so that lower-casing and the
\* substring test are computed as str.lower() and `in` compute them. A
\* character of ASCII is written as itself, any other by its code point
\* ("U+212A").
UpperCase == <<"A","B","C","D","E","F","G","H","I","J","K","L","M","N","O","P","Q","R","S","T","U","V","W","X","Y","Z","U+212A","U+0130">>
LowerCase == <<"a","b","c","d","e","f","g","h","i","j","k","l","m","n","o","p","q","r","s","t","u","v","w","x","y","z","k","i">>

\* The first character of the lower case of a character. Two characters
\* outside ASCII have a lower case with a character of ASCII in it: the
\* Kelvin sign U+212A gives "k", the dotted capital U+0130 gives "i" and,
\* after it, the combining dot U+0307. Every other character outside ASCII
\* has a lower case outside ASCII and stands for it.
LowerChar(c) ==
    IF \E i \in 1..Len(UpperCase) : UpperCase[i] = c
    THEN LowerCase[CHOOSE i \in 1..Len(UpperCase) : UpperCase[i] = c]
    ELSE c

\* The length of the lower case of the first i characters of s: the dotted
\* capital gives two characters, every other character one
LowerLen(s, i) == i + Cardinality({j \in 1..i : s[j] = "U+0130"})

\* The lower case of a string with dotted capitals in it
LowerLong(s) ==
    [k \in 1..LowerLen(s, Len(s)) |->
        LET i == CHOOSE i \in 1..Len(s) : LowerLen(s, i - 1) < k /\ k <= LowerLen(s, i)
        IN IF k = LowerLen(s, i - 1) + 2 THEN "U+0307" ELSE LowerChar(s[i])]

\* str.lower(): the lower case of each character, one after the other
Lower(s) ==
    IF \E i \in 1..Len(s) : s[i] = "U+0130" THEN LowerLong(s)
    ELSE [i \in 1..Len(s) |-> LowerChar(s[i])]

\* `sub in s` for strings
Contains(s, sub) ==
    LET n == Len(sub) IN
    \E i \in 1..(Len(s) - n + 1) : \A j \in 1..n : s[i + j - 1] = sub[j]

Msg429 == <<"E","r","r","o","r"," ","4","2","9">>
MsgQuota == <<"Q","U","O","T","A"," ","h","i","t">>
MsgRateLimit == <<"R","a","t","e"," ","L","i","m","i","t">>
MsgTimeout == <<"T","i","m","e","o","u","t"," ","e","x","c","e","e","d","e","d">>
MsgTooMany == <<"T","o","o"," ","M","a","n","y"," ","R","e","q","u","e","s","t","s">>
MsgRefused == <<"R","e","f","u","s","e","d">>
NoMsg == <<>>

\* The error messages handed to handle_quota_error.
Messages == {Msg429, MsgQuota, MsgRateLimit, MsgTimeout, MsgTooMany, MsgRefused}

\* ------------------------------------------------------------------ APIManager
Providers == {"gemini", "grok"}
Other(p) == IF p = "gemini" THEN "grok" ELSE "gemini"

\* Python truthiness of a key read with os.getenv
Truthy(k) == k /= "None"

KeyOf(p) == IF p = "gemini" THEN gemini_key ELSE grok_key

\* quota_indicators, Fagun.py:79
quota_indicators ==
    << <<"q","u","o","t","a">>,
       <<"l","i","m","i","t">>,
       <<"e","x","c","e","e","d","e","d">>,
       <<"r","a","t","e"," ","l","i","m","i","t">>,
       <<"t","o","o"," ","m","a","n","y"," ","r","e","q","u","e","s","t","s">>,
       <<"4","2","9">> >>

\* A slip: the message is matched without lower-casing it.
IsQuotaErrorCaseSensitive(msg) ==
    \E i \in 1..Len(quota_indicators) : Contains(msg, quota_indicators[i])

\* any(indicator in error_lower for indicator in quota_indicators), Fagun.py:78-81
IsQuotaError(msg) ==
    LET error_lower == Lower(msg) IN
    \E i \in 1..Len(quota_indicators) : Contains(error_lower, quota_indicators[i])

\* switch_to_grok / switch_to_gemini from provider p: the provider afterwards
\* and whether the call raised ("<X> API key not available").
switch_to(target) ==
    IF Truthy(KeyOf(target))
    THEN [provider |-> target, raised |-> FALSE]
    ELSE [provider |-> current_provider, raised |-> TRUE]

\* A slip: a quota error on grok is not switched back to gemini.
handle_quota_error_oneway(msg) ==
    IF IsQuotaError(msg) /\ current_provider = "gemini" /\ Truthy(grok_key)
    THEN [ret |-> TRUE, provider |-> "grok"]
    ELSE [ret |-> FALSE, provider |-> current_provider]

\* handle_quota_error: the value returned and the provider afterwards.
handle_quota_error(msg) ==
    IF IsQuotaError(msg)
    THEN IF current_provider = "gemini" /\ Truthy(grok_key)
         THEN [ret |-> TRUE, provider |-> switch_to("grok").provider]
         ELSE IF current_provider = "grok" /\ Truthy(gemini_key)
              THEN [ret |-> TRUE, provider |-> switch_to("gemini").provider]
              ELSE [ret |-> FALSE, provider |-> current_provider]
    ELSE [ret |-> FALSE, provider |-> current_provider]

\* get_current_llm started with current provider p at recursion depth d,
\* having made `sw` provider switches and `att` construction attempts:
\* result is the provider of the client returned, or the exception raised.
\* With both keys set and neither client constructible the calls alternate
\* between the providers until the interpreter's recursion limit ends them;
\* which provider is current at that moment depends on how deep the stack
\* of the caller already was, so it is either one: `left`.
RECURSIVE get_current_llm_from(_, _, _, _, _)
get_current_llm_from(p, d, sw, att, left) ==
    IF d > RecursionLimit
    THEN [result |-> "RecursionError", provider |-> left, switches |-> sw, attempts |-> att]
    ELSE IF Truthy(KeyOf(p))
         THEN IF constructible[p]
              THEN [result |-> p, provider |-> p, switches |-> sw, attempts |-> att + 1]
              ELSE IF Truthy(KeyOf(Other(p)))
                   THEN get_current_llm_from(Other(p), d + 1, sw + 1, att + 1, left)
                   ELSE [result |-> "KeyNotAvailable", provider |-> p,
                         switches |-> sw, attempts |-> att + 1]
         ELSE [result |-> "NoValidKeys", provider |-> p, switches |-> sw, attempts |-> att]

get_current_llm(left) == get_current_llm_from(current_provider, 1, 0, 0, left)

IsClient(r) == r \in Providers

CallRec(op, msg, after, ret, sw, att) ==
    [op |-> op, msg |-> msg, before |-> current_provider, after |-> after,
     ret |-> ret, switches |-> sw, attempts |-> att]

\* APIManager.__init__ with every environment
InitAPI ==
    /\ gemini_key \in {"None", "key"}
    /\ grok_key \in {"None", "key"}
    /\ current_provider = "gemini"
    /\ quota_exceeded = FALSE
    /\ constructible \in [Providers -> BOOLEAN]
    /\ calls = <<>>

HandleQuotaError(msg) ==
    /\ Len(calls) < MaxCalls
    /\ LET r == handle_quota_error(msg) IN
       /\ current_provider' = r.provider
       /\ calls' = Append(calls, CallRec("handle_quota_error", msg, r.provider,
                                         IF r.ret THEN "True" ELSE "False", 0, 0))
    /\ UNCHANGED <<gemini_key, grok_key, quota_exceeded, constructible, mainVars, reportVars, runVars, extVars>>

SwitchTo(target) ==
    /\ Len(calls) < MaxCalls
    /\ LET r == switch_to(target) IN
       /\ current_provider' = r.provider
       /\ calls' = Append(calls, CallRec("switch_to", NoMsg, r.provider,
                                         IF r.raised THEN "KeyNotAvailable" ELSE "None", 0, 0))
    /\ UNCHANGED <<gemini_key, grok_key, quota_exceeded, constructible, mainVars, reportVars, runVars, extVars>>

GetCurrentLLM(left) ==
    /\ Len(calls) < MaxCalls
    /\ LET r == get_current_llm(left) IN
       /\ current_provider' = r.provider
       /\ calls' = Append(calls, CallRec("get_current_llm", NoMsg, r.provider,
                                         r.result, r.switches, r.attempts))
    /\ UNCHANGED <<gemini_key, grok_key, quota_exceeded, constructible, mainVars, reportVars, runVars, extVars>>

\* max_retries, Fagun.py:2685
max_retries == 2

\* The outcomes of one agent.run(): it returns (NoMsg), or raises an error
\* with a message.
RunOutcomes == {NoMsg} \cup Messages

\* A slip: the retry does not depend on handle_quota_error's answer.
ShouldRetryAlways(hq_ret, att) == att < max_retries

\* api_manager.handle_quota_error(str(e)) and attempt < max_retries, Fagun.py:2691
ShouldRetry(hq_ret, att) == hq_ret /\ att < max_retries

FailureRec(msg, hq, retried, llm, prov) ==
    [attempt |-> attempt, msg |-> msg, hq_ret |-> hq.ret, switched_to |-> hq.provider,
     retried |-> retried, agent_llm |-> llm, provider |-> prov]

\* The report generator's test_results, as main() passes it from call to call
CurrentReport ==
    [test_steps |-> test_steps, findings |-> findings, summary |-> summary,
     end_time |-> end_time, finalize_count |-> finalize_count,
     mutated_after_final |-> mutated_after_final]

\* report_generator.add_test_step(name, status, ...), Fagun.py:588-609
report_add_test_step(rep, status) ==
    [rep EXCEPT
       !.test_steps = Append(@, [id |-> Len(@) + 1, status |-> status]),
       !.summary.total_tests = @ + 1,
       !.summary.passed = IF status = "passed" THEN @ + 1 ELSE @,
       !.summary.failed = IF status = "failed" THEN @ + 1 ELSE @,
       !.summary.warnings = IF status = "warning" THEN @ + 1 ELSE @,
       !.mutated_after_final = @ \/ rep.end_time /= "None"]

\* report_generator.add_finding(category, ...), Fagun.py:611-622, for a
\* category that is a key
report_add_finding(rep, category) ==
    [rep EXCEPT
       !.findings[category] = Append(@, [id |-> Len(@) + 1]),
       !.summary.total_findings = @ + 1,
       !.mutated_after_final = @ \/ rep.end_time /= "None"]

\* finalize_report, Fagun.py:1433-1438: end_time and duration are computed
finalize_report(rep) ==
    [rep EXCEPT !.end_time = "set", !.finalize_count = @ + 1]

\* What generate_html_report writes of test_results, Fagun.py:1440-1452
ReportFile(rep) ==
    [total_tests |-> rep.summary.total_tests,
     failed_steps |-> Cardinality({i \in 1..Len(rep.test_steps) :
                                      rep.test_steps[i].status = "failed"}),
     error_findings |-> Len(rep.findings["errors"]),
     end_time |-> rep.end_time]

\* The whitespace str.strip() removes: the characters for which
\* str.isspace() holds
Whitespace ==
    {" ", "\t", "\n", "\r", "\f", "U+000B", "U+001C", "U+001D", "U+001E", "U+001F",
     "U+0085", "U+00A0", "U+1680", "U+2000", "U+2001", "U+2002", "U+2003", "U+2004",
     "U+2005", "U+2006", "U+2007", "U+2008", "U+2009", "U+200A", "U+2028", "U+2029",
     "U+202F", "U+205F", "U+3000"}

\* str.strip()
RECURSIVE Strip(_)
Strip(s) ==
    IF Len(s) = 0 THEN s
    ELSE IF s[1] \in Whitespace THEN Strip(Tail(s))
    ELSE IF s[Len(s)] \in Whitespace THEN Strip(SubSeq(s, 1, Len(s) - 1))
    ELSE s

\* any(indicator in s for indicator in indicators)
ContainsAny(s, indicators) ==
    \E i \in 1..Len(indicators) : Contains(s, indicators[i])

\* The status _parse_action_content gives a step, Fagun.py:703-738: "failed"
\* for a content with "error" or "failed" that none of the earlier branches
\* takes, "passed" for every other.
parse_action_content(content) ==
    LET content_lower == Lower(content) IN
    IF Contains(content_lower, <<"n","a","v","i","g","a","t","e","d"," ","t","o">>) \/ Contains(content_lower, <<"g","o"," ","t","o">>)
    THEN "passed"
    ELSE IF Contains(content_lower, <<"o","p","e","n","e","d">>) /\ Contains(content_lower, <<"t","a","b">>)
    THEN "passed"
    ELSE IF Contains(content_lower, <<"c","l","i","c","k","e","d">>)
    THEN "passed"
    ELSE IF Contains(content_lower, <<"w","a","i","t","i","n","g">>)
    THEN "passed"
    ELSE IF Contains(content_lower, <<"e","x","t","r","a","c","t","e","d">>) /\ Contains(content_lower, <<"c","o","n","t","e","n","t">>)
    THEN "passed"
    ELSE IF Contains(content_lower, <<"e","x","t","r","a","c","t","e","d"," ","f","r","o","m"," ","p","a","g","e">>)
    THEN "passed"
    ELSE IF Contains(content_lower, <<"s","u","c","c","e","s","s","f","u","l","l","y">>) /\ Contains(content_lower, <<"c","o","m","p","l","e","t","e","d">>)
    THEN "passed"
    ELSE IF Contains(content_lower, <<"d","o","n","e">>) /\ Contains(content_lower, <<"s","u","c","c","e","s","s">>)
    THEN "passed"
    ELSE IF Contains(content_lower, <<"e","r","r","o","r">>) \/ Contains(content_lower, <<"f","a","i","l","e","d">>)
    THEN "failed"
    ELSE "passed"
\* demo_indicators, Fagun.py:933-938
demo_indicators ==
    << <<"l","o","r","e","m"," ","i","p","s","u","m">>,
       <<"d","o","l","o","r"," ","s","i","t"," ","a","m","e","t">>,
       <<"c","o","n","s","e","c","t","e","t","u","r"," ","a","d","i","p","i","s","c","i","n","g">>,
       <<"d","e","m","o"," ","c","o","n","t","e","n","t">>,
       <<"p","l","a","c","e","h","o","l","d","e","r"," ","t","e","x","t">>,
       <<"s","a","m","p","l","e"," ","t","e","x","t">>,
       <<"t","e","s","t"," ","c","o","n","t","e","n","t">>,
       <<"e","x","a","m","p","l","e"," ","t","e","x","t">>,
       <<"d","u","m","m","y"," ","c","o","n","t","e","n","t">>,
       <<"c","o","m","i","n","g"," ","s","o","o","n">>,
       <<"u","n","d","e","r"," ","c","o","n","s","t","r","u","c","t","i","o","n">>,
       <<"p","a","g","e"," ","n","o","t"," ","r","e","a","d","y">> >>

\* _is_demo_content, Fagun.py:931-940
is_demo_content(content) == ContainsAny(Lower(content), demo_indicators)

\* The character U+1F517, written by its code point
LinkSign == "U+1F517"

\* _is_valid_finding_content, Fagun.py:942-956
is_valid_finding_content(content) ==
    LET stripped == Strip(content) IN
    IF Len(stripped) < 10
    THEN FALSE
    ELSE IF stripped[1] = LinkSign /\ Contains(Lower(content), <<"n","a","v","i","g","a","t","e","d">>)
    THEN FALSE
    ELSE IF Contains(Lower(content), <<"e","x","t","r","a","c","t","e","d">>) /\ Contains(Lower(content), <<"s","u","c","c","e","s","s","f","u","l","l","y">>)
    THEN FALSE
    ELSE TRUE

\* The checks of _extract_findings_from_content in their order, each with the
\* category it adds a finding to and the indicators of its predicate,
\* Fagun.py:887-929 and 958-1035
finding_checks ==
    << [category |-> "broken_urls",
        indicators |-> << <<"4","0","4">>, <<"n","o","t"," ","f","o","u","n","d">>, <<"b","r","o","k","e","n"," ","l","i","n","k">>, <<"d","e","a","d"," ","l","i","n","k">>, <<"u","r","l"," ","e","r","r","o","r">> >>],
       [category |-> "grammatical_errors",
        indicators |-> << <<"g","r","a","m","m","a","r">>, <<"s","p","e","l","l","i","n","g">>, <<"t","y","p","o">>, <<"m","i","s","s","p","e","l","l","e","d">>, <<"i","n","c","o","r","r","e","c","t"," ","t","e","x","t">> >>],
       [category |-> "performance_issues",
        indicators |-> << <<"s","l","o","w">>, <<"l","o","a","d","i","n","g">>, <<"p","e","r","f","o","r","m","a","n","c","e">>, <<"t","i","m","e","o","u","t">>, <<"l","a","g">>, <<"d","e","l","a","y">> >>],
       [category |-> "ui_issues",
        indicators |-> << <<"l","a","y","o","u","t">>, <<"r","e","s","p","o","n","s","i","v","e">>, <<"m","o","b","i","l","e">>, <<"d","i","s","p","l","a","y">>, <<"r","e","n","d","e","r","i","n","g">>, <<"c","s","s">> >>],
       [category |-> "functionality_issues",
        indicators |-> << <<"n","o","t"," ","w","o","r","k","i","n","g">>, <<"b","r","o","k","e","n">>, <<"m","a","l","f","u","n","c","t","i","o","n">>, <<"e","r","r","o","r">>, <<"f","a","i","l","e","d">>, <<"u","n","a","b","l","e">> >>],
       [category |-> "accessibility_issues",
        indicators |-> << <<"a","c","c","e","s","s","i","b","i","l","i","t","y">>, <<"a","1","1","y">>, <<"s","c","r","e","e","n"," ","r","e","a","d","e","r">>, <<"a","l","t"," ","t","e","x","t">>, <<"a","r","i","a">>, <<"w","c","a","g">> >>],
       [category |-> "security_concerns",
        indicators |-> << <<"s","e","c","u","r","i","t","y">>, <<"v","u","l","n","e","r","a","b","i","l","i","t","y">>, <<"i","n","s","e","c","u","r","e">>, <<"h","t","t","p",":","/","/">>, <<"u","n","e","n","c","r","y","p","t","e","d">> >>],
       [category |-> "responsive_issues",
        indicators |-> << <<"r","e","s","p","o","n","s","i","v","e">>, <<"m","o","b","i","l","e">>, <<"t","a","b","l","e","t">>, <<"d","e","s","k","t","o","p">>, <<"v","i","e","w","p","o","r","t">>, <<"b","r","e","a","k","p","o","i","n","t">>, <<"s","c","r","e","e","n"," ","s","i","z","e">>, <<"s","c","a","l","i","n","g">>, <<"a","l","i","g","n","m","e","n","t">>, <<"o","v","e","r","f","l","o","w">>, <<"c","r","a","m","p","e","d">>, <<"c","u","t"," ","o","f","f">>, <<"n","o","t"," ","f","i","t","t","i","n","g">>, <<"l","a","y","o","u","t"," ","b","r","o","k","e","n">>, <<"e","l","e","m","e","n","t","s"," ","o","v","e","r","l","a","p","p","i","n","g">> >>],
       [category |-> "cross_browser_issues",
        indicators |-> << <<"c","h","r","o","m","e">>, <<"f","i","r","e","f","o","x">>, <<"s","a","f","a","r","i">>, <<"e","d","g","e">>, <<"b","r","o","w","s","e","r">>, <<"r","e","n","d","e","r","i","n","g">>, <<"c","s","s">>, <<"f","o","n","t">>, <<"l","a","y","o","u","t">>, <<"c","o","m","p","a","t","i","b","i","l","i","t","y">>, <<"d","i","f","f","e","r","e","n","t">>, <<"i","n","c","o","n","s","i","s","t","e","n","t">> >>],
       [category |-> "form_issues",
        indicators |-> << <<"f","o","r","m">>, <<"i","n","p","u","t">>, <<"v","a","l","i","d","a","t","i","o","n">>, <<"s","u","b","m","i","t">>, <<"r","e","q","u","i","r","e","d">>, <<"f","i","e","l","d">>, <<"c","o","n","t","a","c","t"," ","f","o","r","m">>, <<"e","r","r","o","r"," ","m","e","s","s","a","g","e">>, <<"s","u","c","c","e","s","s"," ","m","e","s","s","a","g","e">>, <<"b","u","t","t","o","n">> >>],
       [category |-> "navigation_issues",
        indicators |-> << <<"n","a","v","i","g","a","t","i","o","n">>, <<"m","e","n","u">>, <<"h","a","m","b","u","r","g","e","r">>, <<"l","i","n","k">>, <<"r","e","d","i","r","e","c","t">>, <<"u","r","l">>, <<"n","o","t"," ","w","o","r","k","i","n","g">>, <<"b","r","o","k","e","n">>, <<"c","l","i","c","k","a","b","l","e">>, <<"h","o","v","e","r">>, <<"a","c","t","i","v","e">> >>] >>

\* The categories _extract_findings_from_content adds a finding to for a
\* content, in order, Fagun.py:867-929: demo content gives one UI finding and
\* nothing else; content that is not worth a finding gives none.
extract_findings_from_content(content) ==
    IF is_demo_content(content)
    THEN <<"ui_issues">>
    ELSE IF ~is_valid_finding_content(content)
    THEN <<>>
    ELSE LET hit == {i \in 1..Len(finding_checks) :
                        ContainsAny(Lower(content), finding_checks[i].indicators)}
             RECURSIVE from(_)
             from(i) == IF i > Len(finding_checks) THEN <<>>
                        ELSE IF i \in hit
                        THEN <<finding_checks[i].category>> \o from(i + 1)
                        ELSE from(i + 1)
         IN from(1)

\* Contents an action result can hold (extracted_content)
ContentNavigated == <<"N","a","v","i","g","a","t","e","d"," ","t","o"," ","h","t","t","p","s",":","/","/","e","x","a","m","p","l","e",".","c","o","m">>
ContentFailedToLoad == <<"E","r","r","o","r",":"," ","t","h","e"," ","p","a","g","e"," ","f","a","i","l","e","d"," ","t","o"," ","l","o","a","d">>
ContentClicked == <<"C","l","i","c","k","e","d"," ","b","u","t","t","o","n"," ","w","i","t","h"," ","i","n","d","e","x"," ","3">>
ContentDemo == <<"L","o","r","e","m"," ","i","p","s","u","m"," ","d","o","l","o","r"," ","s","i","t"," ","a","m","e","t">>
ContentInputs == {ContentNavigated, ContentFailedToLoad, ContentClicked, ContentDemo}

\* Error messages an action result can hold (error)
ErrorNotFound == <<"E","l","e","m","e","n","t"," ","n","o","t"," ","f","o","u","n","d">>
ErrorQuota == <<"Q","u","o","t","a"," ","e","x","c","e","e","d","e","d">>

\* The status and the findings of each content, computed once
ContentAnalysis ==
    [c \in ContentInputs |->
        [status |-> parse_action_content(c), findings |-> extract_findings_from_content(c)]]

\* An attribute that is None or the empty string (both are falsy)
NoText == <<>>

\* The action results explored: extracted_content and error
ResultInputs ==
    {[content |-> ContentFailedToLoad, error |-> NoText],
     [content |-> ContentClicked, error |-> NoText],
     [content |-> ContentNavigated, error |-> ErrorNotFound],
     [content |-> NoText, error |-> ErrorQuota]}

\* Largest number of action results of a run explored.
MaxResults == 2

RECURSIVE SeqsUpTo(_, _)
SeqsUpTo(S, n) ==
    IF n = 0 THEN {<<>>}
    ELSE LET shorter == SeqsUpTo(S, n - 1) IN
         shorter \cup {Append(s, x) : s \in {t \in shorter : Len(t) = n - 1}, x \in S}

\* What agent.run() returned, as main() and the parser look at it:
\*   "history"           it has all_results and cannot be iterated
\*   "iterable_history"  it has all_results and iterating it yields them too
\*   "iter_raises"       it has all_results and __iter__, and iterating raises
\*   "list"              a plain list of results
\*   "single"            one result, with extracted_content of its own
\*   "unreadable"        reading all_results raises
ResultShapes == {"history", "iterable_history", "iter_raises", "list", "single", "unreadable"}

\* Of a single result only the result itself is read, of an unreadable one
\* nothing.
AgentResults ==
    [shape : ResultShapes \ {"single", "unreadable"},
     results : SeqsUpTo(ResultInputs, MaxResults)]
    \cup [shape : {"single"}, results : SeqsUpTo(ResultInputs, 1)]
    \cup [shape : {"unreadable"}, results : {<<>>}]

\* hasattr(agent_result, 'all_results')
has_all_results(ar) == ar.shape \in {"history", "iterable_history", "iter_raises"}

\* hasattr(agent_result, '__iter__') and not isinstance(agent_result, str)
has_iter(ar) == ar.shape \in {"iterable_history", "iter_raises", "list"}

\* add_finding for each category of cats, in order
RECURSIVE report_add_findings(_, _)
report_add_findings(rep, cats) ==
    IF cats = <<>> THEN rep
    ELSE report_add_findings(report_add_finding(rep, Head(cats)), Tail(cats))

\* The step and the findings of one analysed content, Fagun.py:684-701
add_step_with_findings(rep, analysis) ==
    report_add_findings(report_add_test_step(rep, analysis.status), analysis.findings)

\* _create_individual_test_step, Fagun.py:674-701: one step with the status
\* of the content, then the findings of the content.
create_individual_test_step(rep, content) ==
    add_step_with_findings(rep, ContentAnalysis[content])

\* One of the two loops of parse_agent_history, Fagun.py:629-642 and 651-663:
\* a result with content gives the step of its content, a result with only
\* an error a failed step and a finding in "errors", any other nothing.
RECURSIVE scan_results(_, _)
scan_results(rep, results) ==
    IF results = <<>> THEN rep
    ELSE LET result == Head(results)
             r == IF result.content /= NoText
                  THEN create_individual_test_step(rep, result.content)
                  ELSE IF result.error /= NoText
                  THEN report_add_finding(report_add_test_step(rep, "failed"), "errors")
                  ELSE rep
         IN scan_results(r, Tail(results))

\* The first part of parse_agent_history, Fagun.py:628-647: all_results is
\* scanned, or the one result's own content is taken.
scan_all_results(rep, ar) ==
    IF has_all_results(ar)
    THEN scan_results(rep, ar.results)
    ELSE IF ar.shape = "single" /\ ar.results /= <<>> /\ ar.results[1].content /= NoText
    THEN create_individual_test_step(rep, ar.results[1].content)
    ELSE rep

\* The second part of parse_agent_history, Fagun.py:649-672: whatever can be
\* iterated is scanned, and when iterating raises the step "Agent Execution"
\* is added with the status "completed".
scan_iterable(rep, ar) ==
    IF ~has_iter(ar) THEN rep
    ELSE IF ar.shape = "iter_raises"
    THEN report_add_test_step(rep, "completed")
    ELSE scan_results(rep, ar.results)

\* parse_agent_history, Fagun.py:624-672. The results are scanned as
\* all_results, or the one result's own content is taken; then whatever can
\* be iterated is scanned again, and when iterating raises the step
\* "Agent Execution" is added with the status "completed".
parse_agent_history(rep, ar) ==
    IF ar.shape = "unreadable"
    THEN [rep |-> rep, raised |-> TRUE]
    ELSE [rep |-> scan_iterable(scan_all_results(rep, ar), ar), raised |-> FALSE]

ErrorInputs == {ErrorNotFound, ErrorQuota}

\* "quota" in str(res.error).lower(), Fagun.py:2727 and 2740, of each error
\* message, computed once
MentionsQuota == [e \in ErrorInputs |-> Contains(Lower(e), <<"q","u","o","t","a">>)]

\* hasattr(res, 'error') and res.error and "quota" in str(res.error).lower()
is_quota_result(res) == res.error /= NoText /\ MentionsQuota[res.error]

\* One of the two loops over the results for quota errors, Fagun.py:2726-2733
\* and 2739-2746: a finding in "performance_issues" for each.
RECURSIVE quota_findings(_, _)
quota_findings(rep, results) ==
    IF results = <<>> THEN rep
    ELSE quota_findings(IF is_quota_result(Head(results))
                        THEN report_add_finding(rep, "performance_issues")
                        ELSE rep,
                        Tail(results))

\* The findings main() adds after the completion step, Fagun.py:2723-2748:
\* all_results is scanned, then whatever can be iterated is scanned again
\* (an exception of the iteration is swallowed).
additional_findings(rep, ar) ==
    LET first == IF has_all_results(ar) THEN quota_findings(rep, ar.results) ELSE rep
    IN IF ar.shape \in {"iterable_history", "list"}
       THEN quota_findings(first, ar.results)
       ELSE first

\* The outer handler of main(), Fagun.py:2764-2789: the failed step, the
\* finding, finalize_report, generate_html_report. The handler returns None;
\* when writing the file raises, the exception leaves main().
except_handler(rep, write_ok) ==
    LET r == finalize_report(
                 report_add_finding(report_add_test_step(rep, "failed"), "errors"))
    IN [rep |-> r,
        files |-> IF write_ok THEN <<ReportFile(r)>> ELSE <<>>,
        exit |-> IF write_ok THEN "returned_none" ELSE "raised"]

SetReport(rep) ==
    /\ test_steps' = rep.test_steps
    /\ findings' = rep.findings
    /\ summary' = rep.summary
    /\ end_time' = rep.end_time
    /\ finalize_count' = rep.finalize_count
    /\ mutated_after_final' = rep.mutated_after_final

\* The steps main() adds before it asks for a client, Fagun.py:2652-2672
started_report(rep, has_plan) ==
    report_add_test_step(
        IF has_plan THEN report_add_test_step(rep, "passed") ELSE rep, "passed")

\* main() up to the retry loop, Fagun.py:2620-2683: without a prompt, and
\* without any key, main returns before a report generator exists; otherwise
\* the plan step and the initialization step are added, then
\* get_current_llm() and Agent(...).
MainStart(has_prompt, has_plan, write_ok, left) ==
    /\ main_pc = "init"
    /\ IF ~has_prompt \/ (~Truthy(gemini_key) /\ ~Truthy(grok_key))
       THEN /\ main_pc' = IF has_prompt THEN "no_keys" ELSE "no_prompt"
            /\ main_exit' = "returned_none"
            /\ UNCHANGED <<current_provider, agent_llm, surfaced, report_files,
                           test_steps, findings, summary, end_time, finalize_count,
                           mutated_after_final>>
       ELSE LET r == get_current_llm(left)
                rep == started_report(CurrentReport, has_plan)
                h == except_handler(rep, write_ok)
            IN
            /\ current_provider' = r.provider
            /\ IF IsClient(r.result)
               THEN /\ main_pc' = "loop"
                    /\ agent_llm' = r.result
                    /\ surfaced' = surfaced
                    /\ SetReport(rep)
                    /\ UNCHANGED <<main_exit, report_files>>
               ELSE /\ main_pc' = "failed"
                    /\ agent_llm' = agent_llm
                    /\ surfaced' = r.result
                    /\ SetReport(h.rep)
                    /\ report_files' = report_files \o h.files
                    /\ main_exit' = h.exit
    /\ UNCHANGED <<gemini_key, grok_key, quota_exceeded, constructible, calls,
                   attempt, invocations, failures_log, finding_calls, report_ops>>
    /\ UNCHANGED <<runVars, extVars>>

\* One iteration of `for attempt in range(max_retries + 1)`, Fagun.py:2686-2700,
\* with the outer handler when the exception is raised on.
MainAttempt(outcome, write_ok, left) ==
    /\ main_pc = "loop"
    /\ attempt \in 0..max_retries
    /\ invocations' = invocations + 1
    /\ IF outcome = NoMsg
       THEN /\ main_pc' = "post"
            /\ UNCHANGED <<current_provider, attempt, agent_llm, failures_log, surfaced,
                           main_exit, report_files, test_steps, findings, summary,
                           end_time, finalize_count, mutated_after_final>>
       ELSE LET hq == handle_quota_error(outcome)
                r == get_current_llm_from(hq.provider, 1, 0, 0, left)
                h == except_handler(CurrentReport, write_ok)
            IN
            IF ShouldRetry(hq.ret, attempt) /\ IsClient(r.result)
            THEN /\ main_pc' = "loop"
                 /\ attempt' = attempt + 1
                 /\ current_provider' = r.provider
                 /\ agent_llm' = r.result
                 /\ failures_log' = Append(failures_log,
                       FailureRec(outcome, hq, TRUE, r.result, r.provider))
                 /\ UNCHANGED <<surfaced, main_exit, report_files, test_steps, findings,
                                summary, end_time, finalize_count, mutated_after_final>>
            ELSE /\ main_pc' = "failed"
                 /\ attempt' = attempt
                 /\ agent_llm' = agent_llm
                 /\ IF ShouldRetry(hq.ret, attempt)
                    THEN /\ current_provider' = r.provider
                         /\ failures_log' = Append(failures_log,
                               FailureRec(outcome, hq, FALSE, agent_llm, r.provider))
                         /\ surfaced' = r.result
                    ELSE /\ current_provider' = hq.provider
                         /\ failures_log' = Append(failures_log,
                               FailureRec(outcome, hq, FALSE, agent_llm, hq.provider))
                         /\ surfaced' = "AgentError"
                 /\ SetReport(h.rep)
                 /\ report_files' = report_files \o h.files
                 /\ main_exit' = h.exit
    /\ UNCHANGED <<gemini_key, grok_key, quota_exceeded, constructible, calls,
                   finding_calls, report_ops>>
    /\ UNCHANGED <<runVars, extVars>>

\* Where the success path can fail: nowhere, at the completion step (its
\* text reads result.all_results, Fagun.py:2719), at the scan for quota
\* errors (2724), or when the report file is written (2753).
SuccessPathFailures == {"none", "completion", "quota_scan", "write"}

\* A failure point with whether the handler can write its report
FinishInputs ==
    {<<"none", TRUE>>} \cup ((SuccessPathFailures \ {"none"}) \X BOOLEAN)

\* The report after the parser, Fagun.py:2702-2713: when the parser raised,
\* the step "Agent Execution" is added with the status "completed"
history_parsed(p) ==
    IF p.raised THEN report_add_test_step(p.rep, "completed") ELSE p.rep

\* The success path from the completion step on, Fagun.py:2715-2762, with
\* the report r0 the parser left
after_history(r0, ar, failed_at, handler_write_ok) ==
    LET r1 == report_add_test_step(r0, "passed")
        r3 == finalize_report(additional_findings(r1, ar))
    IN
    IF failed_at = "completion" THEN except_handler(r0, handler_write_ok)
    ELSE IF failed_at = "quota_scan" THEN except_handler(r1, handler_write_ok)
    ELSE IF failed_at = "write" THEN except_handler(r3, handler_write_ok)
    ELSE [rep |-> r3, files |-> <<ReportFile(r3)>>, exit |-> "returned_result"]

\* The success path after the loop, Fagun.py:2702-2762: the history is
\* parsed (when that raises, the step "Agent Execution" is added with the
\* status "completed"), the completion step and the quota findings are
\* added, the report is finalized and written. An exception anywhere on the
\* way is caught by the outer handler. A result whose all_results cannot be
\* read fails the parser and the completion step alike.
success_path(rep, ar, fails_at, handler_write_ok) ==
    after_history(history_parsed(parse_agent_history(rep, ar)), ar,
                  IF ar.shape = "unreadable" THEN "completion" ELSE fails_at,
                  handler_write_ok)

MainFinish(ar, fails_at, handler_write_ok) ==
    /\ main_pc = "post"
    /\ \E out \in {success_path(CurrentReport, ar, fails_at, handler_write_ok)} :
          /\ SetReport(out.rep)
          /\ report_files' = report_files \o out.files
          /\ main_exit' = out.exit
          /\ IF out.exit = "returned_result"
             THEN /\ main_pc' = "returned"
                  /\ UNCHANGED surfaced
             ELSE /\ main_pc' = "failed"
                  /\ surfaced' = IF fails_at = "write" /\ ar.shape /= "unreadable"
                                 THEN "ReportError" ELSE "ResultError"
    /\ UNCHANGED <<apiVars, attempt, invocations, agent_llm, failures_log,
                   finding_calls, report_ops>>
    /\ UNCHANGED <<runVars, extVars>>

InitMainIdle ==
    /\ main_pc = "init"
    /\ attempt = 0
    /\ invocations = 0
    /\ agent_llm = "None"
    /\ failures_log = <<>>
    /\ surfaced = "None"
    /\ main_exit = "None"
    /\ report_files = <<>>

\* ------------------------------------------------------------------ TestReportGenerator
\* The keys of test_results['findings'], Fagun.py:559-573
FindingCategories ==
    {"errors", "bugs", "grammatical_errors", "broken_urls", "performance_issues",
     "accessibility_issues", "security_concerns", "ui_issues", "functionality_issues",
     "responsive_issues", "cross_browser_issues", "form_issues", "navigation_issues"}

\* The categories passed to add_finding: the keys, and one that is no key.
CategoryInputs == FindingCategories \cup {"unknown_category"}

\* The statuses passed to add_test_step (Fagun.py:2656, 2710, 2768 and the
\* history parser).
StepStatuses == {"passed", "failed", "warning", "completed"}

\* A slip: the finding is stored without counting it.
add_finding_uncounted(category) ==
    IF category \in DOMAIN findings
    THEN [findings |-> [findings EXCEPT ![category] = Append(@, [id |-> Len(@) + 1])],
          summary |-> summary,
          raised |-> FALSE]
    ELSE [findings |-> findings, summary |-> summary, raised |-> TRUE]

\* add_finding, Fagun.py:611-622. findings[category] of a category that is no
\* key raises KeyError before anything is written.
add_finding(category) ==
    IF category \in DOMAIN findings
    THEN [findings |-> [findings EXCEPT ![category] = Append(@, [id |-> Len(@) + 1])],
          summary |-> [summary EXCEPT !.total_findings = @ + 1],
          raised |-> FALSE]
    ELSE [findings |-> findings, summary |-> summary, raised |-> TRUE]

\* add_test_step, Fagun.py:588-609
add_test_step(status) ==
    [test_steps |-> Append(test_steps, [id |-> Len(test_steps) + 1, status |-> status]),
     summary |-> [summary EXCEPT
                    !.total_tests = @ + 1,
                    !.passed = IF status = "passed" THEN @ + 1 ELSE @,
                    !.failed = IF status = "failed" THEN @ + 1 ELSE @,
                    !.warnings = IF status = "warning" THEN @ + 1 ELSE @]]

\* TestReportGenerator.__init__, Fagun.py:522-586
InitReport ==
    /\ test_steps = <<>>
    /\ findings = [c \in FindingCategories |-> <<>>]
    /\ summary = [total_tests |-> 0, passed |-> 0, failed |-> 0, warnings |-> 0,
                  total_findings |-> 0]
    /\ finding_calls = [c \in CategoryInputs |-> 0]
    /\ report_ops = 0
    /\ end_time = "None"
    /\ finalize_count = 0
    /\ mutated_after_final = FALSE

AddFinding(category) ==
    /\ report_ops < MaxReportOps
    /\ report_ops' = report_ops + 1
    /\ LET r == add_finding(category) IN
       /\ findings' = r.findings
       /\ summary' = r.summary
    /\ finding_calls' = [finding_calls EXCEPT ![category] = @ + 1]
    /\ UNCHANGED <<test_steps, end_time, finalize_count, mutated_after_final>>
    /\ UNCHANGED <<apiVars, mainVars, runVars, extVars>>

AddTestStep(status) ==
    /\ report_ops < MaxReportOps
    /\ report_ops' = report_ops + 1
    /\ LET r == add_test_step(status) IN
       /\ test_steps' = r.test_steps
       /\ summary' = r.summary
    /\ UNCHANGED <<findings, finding_calls, end_time, finalize_count, mutated_after_final>>
    /\ UNCHANGED <<apiVars, mainVars, runVars, extVars>>

\* ------------------------------------------------------------------ BrowserUseAgent.run
Agents == {"a1", "a2"}

\* The step loop is under way (the page is open, the callbacks apply)
RunningPcs == {"top", "wait_resume", "check", "pause_wait", "step", "after_step"}
\* The finally block is under way
FinallyPcs == {"cleanup", "testing", "render", "detach"}
TerminalPcs == {"returned", "raised"}

\* error_message, browser_use_agent.py:166
FailedMaxSteps == "Failed to complete task in maximum steps"

OkEntry == [kind |-> "ok", error |-> "None"]
\* A step whose list of action results is empty
EmptyEntry == [kind |-> "empty", error |-> "None"]
ErrorEntry == [kind |-> "error", error |-> "step failed"]
DoneEntry == [kind |-> "done", error |-> "None"]
\* The AgentHistory appended by the for-else, browser_use_agent.py:168-181
MaxStepsEntry == [kind |-> "error", error |-> FailedMaxSteps]

\* self.state.history.is_done(): the last entry reports the task done
is_done(h) == Len(h) > 0 /\ h[Len(h)].kind = "done"

\* What one self.step() can do: succeed, succeed without any action result,
\* fail, finish the task, raise an Exception, or raise KeyboardInterrupt.
StepOutcomes == {"ok", "empty", "error", "done", "raise", "interrupt"}

\* A slip: the loop runs one iteration more than max_steps.
LoopExhaustedOffByOne(idx) == idx > MaxSteps

\* for step in range(max_steps): the loop is over, browser_use_agent.py:128
LoopExhausted(idx) == idx >= MaxSteps

\* A slip: the threshold is compared with > instead of >=.
TooManyFailuresStrict(n) == n > MaxFailures

\* self.state.consecutive_failures >= self.settings.max_failures,
\* browser_use_agent.py:135
TooManyFailures(n) == n >= MaxFailures

\* The history entry a step leaves
StepEntry(outcome) ==
    IF outcome = "ok" THEN OkEntry
    ELSE IF outcome = "empty" THEN EmptyEntry
    ELSE IF outcome = "done" THEN DoneEntry
    ELSE ErrorEntry

\* A slip: a failed validation continues the loop on the last step as well.
after_step_unbounded(h, idx, valid) ==
    IF is_done(h)
    THEN IF validate_output /\ ~valid
         THEN "continue"
         ELSE "complete"
    ELSE "next"

\* What follows a step that returned, browser_use_agent.py:158-164:
\* "continue" (validation failed), "complete" (log_completion, break) or
\* "next" (the task is not done).
after_step(h, idx, valid) ==
    IF is_done(h)
    THEN IF validate_output /\ idx < MaxSteps - 1 /\ ~valid
         THEN "continue"
         ELSE "complete"
    ELSE "next"

NoPayload == [kind |-> "None", total_tests |-> 0, passed_tests |-> 0, failed_tests |-> 0,
              error_tests |-> 0, error_embedded |-> FALSE]

\* The dict returned by the except branch, browser_use_agent.py:637-656
MinimalPayload == [kind |-> "minimal", total_tests |-> 0, passed_tests |-> 0,
                   failed_tests |-> 0, error_tests |-> 0, error_embedded |-> TRUE]

\* The step statistics of _prepare_test_data_for_report,
\* browser_use_agent.py:290-332.
\*  - an empty history raises "No history found in state" (line 294);
\*  - `steps = list(self.state.history)`: the history list is a model of the
\*    agent library, and what iterating it yields is the library's choice.
\*    When it yields its fields (yields_fields), steps is one pair that has
\*    no `result`: one step, counted as passed;
\*  - when it yields the entries, `step.result` is the entry's list of action
\*    results, and `step.result.success` (line 326) raises AttributeError for
\*    every entry whose list is not empty; an entry with an empty list is
\*    counted as passed. No entry is ever counted as failed.
\* Whatever raises ends in the except branch: the minimal payload.
prepare_test_data(h, yields_fields) ==
    IF Len(h) = 0
    THEN MinimalPayload
    ELSE IF yields_fields
    THEN [kind |-> "full", total_tests |-> 1, passed_tests |-> 1,
          failed_tests |-> 0, error_tests |-> 0, error_embedded |-> FALSE]
    ELSE IF \E i \in 1..Len(h) : h[i].kind /= "empty"
    THEN MinimalPayload
    ELSE [kind |-> "full", total_tests |-> Len(h), passed_tests |-> Len(h),
          failed_tests |-> 0, error_tests |-> 0, error_embedded |-> FALSE]

NoReport == [attempted |-> FALSE, raised |-> FALSE, payload |-> NoPayload,
             prep_failed |-> FALSE, render_failed |-> FALSE,
             report |-> "None", logged_error |-> FALSE]

\* The report while its payload is being assembled
ReportUnderWay(payload) == [NoReport EXCEPT !.attempted = TRUE, !.payload = payload]

\* A slip: a failure of PDFReportGenerator.generate_report is not caught.
generate_automated_pdf_report_uncaught(payload, render_fault) ==
    [attempted |-> TRUE, raised |-> render_fault,
     payload |-> payload,
     prep_failed |-> payload.kind = "minimal", render_failed |-> render_fault,
     report |-> IF render_fault THEN "None" ELSE "generated",
     logged_error |-> FALSE]

\* _generate_automated_pdf_report once the payload is there,
\* browser_use_agent.py:234-278: every Exception of the try block is caught
\* and logged.
generate_automated_pdf_report(payload, render_fault) ==
    [attempted |-> TRUE, raised |-> FALSE,
     payload |-> payload,
     prep_failed |-> payload.kind = "minimal", render_failed |-> render_fault,
     report |-> IF render_fault THEN "None" ELSE "generated",
     logged_error |-> render_fault]

\* What can fail in the finally block: self.close(), create_history_gif, the
\* rendering of the report. (A failure to save the Playwright script or to
\* detach the session is caught on the spot and changes nothing; whether the
\* payload can be assembled is decided by the history.)
Faults == [close : BOOLEAN, gif : BOOLEAN, render : BOOLEAN]

NoCleanup == [ran |-> FALSE, closed |-> FALSE, gif |-> "skipped", pdf |-> NoReport,
              monitor_stopped |-> FALSE, detaching |-> "None", raised_by |-> "None"]

\* The report is rendered from the payload, browser_use_agent.py:248-250
rendered(c, payload, render_fault) ==
    LET pdf == generate_automated_pdf_report(payload, render_fault) IN
    [c EXCEPT !.pdf = pdf, !.raised_by = IF pdf.raised THEN "pdf_report" ELSE "None"]

\* The finally block from the return of `await self.close()` to its next
\* await, browser_use_agent.py:214-232: the history GIF, and the report when
\* its payload is the minimal one; with step statistics the payload waits
\* for the tests that are run on a new page (lines 343-380).
finally_phase(h, f, yields_fields) ==
    IF f.close
    THEN [ran |-> TRUE, closed |-> FALSE, gif |-> "skipped", pdf |-> NoReport,
          monitor_stopped |-> FALSE, detaching |-> "None", raised_by |-> "close"]
    ELSE IF generate_gif /\ f.gif
    THEN [ran |-> TRUE, closed |-> TRUE, gif |-> "failed", pdf |-> NoReport,
          monitor_stopped |-> FALSE, detaching |-> "None",
          raised_by |-> "create_history_gif"]
    ELSE LET payload == prepare_test_data(h, yields_fields)
             c == [ran |-> TRUE, closed |-> TRUE,
                   gif |-> IF generate_gif THEN "created" ELSE "skipped",
                   pdf |-> ReportUnderWay(payload),
                   monitor_stopped |-> FALSE, detaching |-> "None",
                   raised_by |-> "None"]
         IN
         IF payload.kind = "minimal" THEN rendered(c, payload, f.render) ELSE c

UnchangedSettings == UNCHANGED <<validate_output, generate_gif>>

\* run() up to error_monitor.start_monitoring's first await,
\* browser_use_agent.py:83-117 and error_monitor.py:52-58: when a page can be
\* had, monitoring_active is set and a CDP session is asked for.
StartRun(a, has_page) ==
    /\ run_pc[a] = "start"
    /\ run_pc' = [run_pc EXCEPT ![a] = IF has_page THEN "session" ELSE "initial"]
    /\ monitoring_active' = (monitoring_active \/ has_page)
    /\ UNCHANGED <<step_idx, steps_executed, consecutive_failures, paused, stopped,
                   history, validation_failures, exit_reason, cleanup>>
    /\ UnchangedSettings
    /\ UNCHANGED <<apiVars, mainVars, reportVars, extVars>>

\* `self.cdp_session = await page.context.new_cdp_session(page)`,
\* error_monitor.py:58: the one attribute of the shared monitor now holds this
\* run's session. When the call raises, start_monitoring logs it and returns
\* (lines 80-81): monitoring_active stays set, nothing else was done.
NewCdpSession(a, session_ok) ==
    /\ run_pc[a] = "session"
    /\ run_pc' = [run_pc EXCEPT ![a] = IF session_ok THEN "handlers" ELSE "initial"]
    /\ cdp_session' = IF session_ok THEN a ELSE cdp_session
    /\ cdp_handlers' = IF session_ok THEN [cdp_handlers EXCEPT ![a].live = TRUE]
                       ELSE cdp_handlers
    /\ UNCHANGED <<step_idx, steps_executed, consecutive_failures, paused, stopped,
                   history, validation_failures, exit_reason, cleanup, monitoring_active>>
    /\ UnchangedSettings
    /\ UNCHANGED <<monitor_errors, screenshots, report_data>>
    /\ UNCHANGED <<apiVars, mainVars, reportVars, utilVars>>

\* The handlers on a run's session: whether the session is attached, and how
\* many handlers it has for a console message, for a thrown exception, for a
\* response or a failed request, and for the performance metrics.
NoHandlers == [live |-> FALSE, console |-> 0, exception |-> 0, network |-> 0,
               performance |-> 0]

\* _setup_console_monitoring after its awaits, error_monitor.py:93-107: the
\* two handlers (console message, runtime exception) are registered on
\* whatever session self.cdp_session holds by now, which is another run's
\* when that run asked for its session in between. When enabling a domain
\* raises, as it does on a detached session, nothing is registered.
RegisterConsoleHandlers(a, setup_ok) ==
    /\ run_pc[a] = "handlers"
    /\ run_pc' = [run_pc EXCEPT ![a] = "js_handlers"]
    /\ cdp_handlers' = IF setup_ok /\ cdp_session \in Agents /\ cdp_handlers[cdp_session].live
                       THEN [cdp_handlers EXCEPT ![cdp_session].console = @ + 1,
                                                 ![cdp_session].exception = @ + 1]
                       ELSE cdp_handlers
    /\ UNCHANGED <<step_idx, steps_executed, consecutive_failures, paused, stopped,
                   history, validation_failures, exit_reason, cleanup, monitoring_active>>
    /\ UnchangedSettings
    /\ UNCHANGED <<monitor_errors, screenshots, cdp_session, report_data>>
    /\ UNCHANGED <<apiVars, mainVars, reportVars, utilVars>>

\* _setup_javascript_monitoring after its await, error_monitor.py:110-123:
\* one more handler for a thrown exception, on the session held by now.
RegisterJavascriptHandlers(a, setup_ok) ==
    /\ run_pc[a] = "js_handlers"
    /\ run_pc' = [run_pc EXCEPT ![a] = "net_handlers"]
    /\ cdp_handlers' = IF setup_ok /\ cdp_session \in Agents /\ cdp_handlers[cdp_session].live
                       THEN [cdp_handlers EXCEPT ![cdp_session].exception = @ + 1]
                       ELSE cdp_handlers
    /\ UNCHANGED <<step_idx, steps_executed, consecutive_failures, paused, stopped,
                   history, validation_failures, exit_reason, cleanup, monitoring_active>>
    /\ UnchangedSettings
    /\ UNCHANGED <<monitor_errors, screenshots, cdp_session, report_data>>
    /\ UNCHANGED <<apiVars, mainVars, reportVars, utilVars>>

\* _setup_network_monitoring after its await, error_monitor.py:125-140: the
\* handlers of a response and of a failed request, on the session held by
\* now (the handler of a request records nothing).
RegisterNetworkHandlers(a, setup_ok) ==
    /\ run_pc[a] = "net_handlers"
    /\ run_pc' = [run_pc EXCEPT ![a] = "perf_handlers"]
    /\ cdp_handlers' = IF setup_ok /\ cdp_session \in Agents /\ cdp_handlers[cdp_session].live
                       THEN [cdp_handlers EXCEPT ![cdp_session].network = @ + 1]
                       ELSE cdp_handlers
    /\ UNCHANGED <<step_idx, steps_executed, consecutive_failures, paused, stopped,
                   history, validation_failures, exit_reason, cleanup, monitoring_active>>
    /\ UnchangedSettings
    /\ UNCHANGED <<monitor_errors, screenshots, cdp_session, report_data>>
    /\ UNCHANGED <<apiVars, mainVars, reportVars, utilVars>>

\* _setup_dom_monitoring, whose handler records nothing, and
\* _setup_performance_monitoring after their awaits, error_monitor.py:142-170:
\* the handler of the performance metrics, on the session held by now. The
\* init script that follows (lines 74-76) changes nothing recorded here.
RegisterPerformanceHandlers(a, setup_ok) ==
    /\ run_pc[a] = "perf_handlers"
    /\ run_pc' = [run_pc EXCEPT ![a] = "initial"]
    /\ cdp_handlers' = IF setup_ok /\ cdp_session \in Agents /\ cdp_handlers[cdp_session].live
                       THEN [cdp_handlers EXCEPT ![cdp_session].performance = @ + 1]
                       ELSE cdp_handlers
    /\ UNCHANGED <<step_idx, steps_executed, consecutive_failures, paused, stopped,
                   history, validation_failures, exit_reason, cleanup, monitoring_active>>
    /\ UnchangedSettings
    /\ UNCHANGED <<monitor_errors, screenshots, cdp_session, report_data>>
    /\ UNCHANGED <<apiVars, mainVars, reportVars, utilVars>>

\* How an await of the try block can end: it returns, it raises an
\* Exception, or it raises KeyboardInterrupt.
Endings == {"none", "raise", "interrupt"}

\* The exit an exception makes: an Exception leaves run() (the finally block
\* runs, then it propagates); a KeyboardInterrupt is caught and the history
\* returned, browser_use_agent.py:187-190.
left_by(ending) == IF ending = "raise" THEN "exception" ELSE "interrupt"

\* The initial actions, browser_use_agent.py:123-126: an exception of
\* multi_act leaves the try block before the first step.
InitialActions(a, ending) ==
    /\ run_pc[a] = "initial"
    /\ IF ending = "none"
       THEN /\ run_pc' = [run_pc EXCEPT ![a] = "top"]
            /\ UNCHANGED exit_reason
       ELSE /\ run_pc' = [run_pc EXCEPT ![a] = "cleanup"]
            /\ exit_reason' = [exit_reason EXCEPT ![a] = left_by(ending)]
    /\ UNCHANGED <<step_idx, steps_executed, consecutive_failures, paused, stopped,
                   history, validation_failures, cleanup, monitoring_active>>
    /\ UnchangedSettings
    /\ UNCHANGED <<apiVars, mainVars, reportVars, extVars>>

\* The head of an iteration, browser_use_agent.py:128-132, and the for-else,
\* browser_use_agent.py:165-183.
LoopTop(a) ==
    /\ run_pc[a] = "top"
    /\ IF LoopExhausted(step_idx[a])
       THEN /\ history' = [history EXCEPT ![a] = Append(@, MaxStepsEntry)]
            /\ exit_reason' = [exit_reason EXCEPT ![a] = "exhausted"]
            /\ run_pc' = [run_pc EXCEPT ![a] = "cleanup"]
       ELSE /\ run_pc' = [run_pc EXCEPT ![a] = IF paused[a] THEN "wait_resume" ELSE "check"]
            /\ UNCHANGED <<history, exit_reason>>
    /\ UNCHANGED <<step_idx, steps_executed, consecutive_failures, paused, stopped,
                   validation_failures, cleanup, monitoring_active>>
    /\ UnchangedSettings
    /\ UNCHANGED <<apiVars, mainVars, reportVars, extVars>>

\* The failure and stop checks and the head of the busy-wait,
\* browser_use_agent.py:134-144
CheckFlags(a) ==
    /\ run_pc[a] = "check"
    /\ IF TooManyFailures(consecutive_failures[a])
       THEN /\ exit_reason' = [exit_reason EXCEPT ![a] = "max_failures"]
            /\ run_pc' = [run_pc EXCEPT ![a] = "cleanup"]
       ELSE IF stopped[a]
       THEN /\ exit_reason' = [exit_reason EXCEPT ![a] = "stopped"]
            /\ run_pc' = [run_pc EXCEPT ![a] = "cleanup"]
       ELSE /\ run_pc' = [run_pc EXCEPT ![a] = IF paused[a] THEN "pause_wait" ELSE "step"]
            /\ UNCHANGED exit_reason
    /\ UNCHANGED <<step_idx, steps_executed, consecutive_failures, paused, stopped,
                   history, validation_failures, cleanup, monitoring_active>>
    /\ UnchangedSettings
    /\ UNCHANGED <<apiVars, mainVars, reportVars, extVars>>

\* One round of `while self.state.paused` that leaves the loop,
\* browser_use_agent.py:144-147: after the sleep the stop flag breaks out of
\* the wait, and so does a cleared paused flag.
PauseWait(a) ==
    /\ run_pc[a] = "pause_wait"
    /\ stopped[a] \/ ~paused[a]
    /\ run_pc' = [run_pc EXCEPT ![a] = "step"]
    /\ UNCHANGED <<step_idx, steps_executed, consecutive_failures, paused, stopped,
                   history, validation_failures, exit_reason, cleanup, monitoring_active>>
    /\ UnchangedSettings
    /\ UNCHANGED <<apiVars, mainVars, reportVars, extVars>>

\* on_step_start raises, browser_use_agent.py:149-150: the try block is left
\* before the step is made.
StepHookRaises(a, ending) ==
    /\ run_pc[a] = "step"
    /\ ending /= "none"
    /\ exit_reason' = [exit_reason EXCEPT ![a] = left_by(ending)]
    /\ run_pc' = [run_pc EXCEPT ![a] = "cleanup"]
    /\ UNCHANGED <<step_idx, steps_executed, consecutive_failures, paused, stopped,
                   history, validation_failures, cleanup, monitoring_active>>
    /\ UnchangedSettings
    /\ UNCHANGED <<apiVars, mainVars, reportVars, extVars>>

\* `await self.step(step_info)`, browser_use_agent.py:152-153. The step
\* raises or is interrupted ("raise", "interrupt": the history is as it
\* was), or it returns with its entry in the history and its failure count.
Step(a, outcome) ==
    /\ run_pc[a] = "step"
    /\ steps_executed' = [steps_executed EXCEPT ![a] = @ + 1]
    /\ IF outcome \in {"raise", "interrupt"}
       THEN /\ exit_reason' = [exit_reason EXCEPT ![a] = left_by(outcome)]
            /\ run_pc' = [run_pc EXCEPT ![a] = "cleanup"]
            /\ UNCHANGED <<history, consecutive_failures>>
       ELSE /\ history' = [history EXCEPT ![a] = Append(@, StepEntry(outcome))]
            /\ consecutive_failures' = [consecutive_failures EXCEPT ![a] =
                                           IF outcome = "error" THEN @ + 1 ELSE 0]
            /\ run_pc' = [run_pc EXCEPT ![a] = "after_step"]
            /\ UNCHANGED exit_reason
    /\ UNCHANGED <<step_idx, validation_failures, paused, stopped, cleanup,
                   monitoring_active>>
    /\ UnchangedSettings
    /\ UNCHANGED <<apiVars, mainVars, reportVars, extVars>>

\* What follows a step that returned, browser_use_agent.py:155-164: the
\* awaits of on_step_end, _validate_output and log_completion, while the
\* page is still open. One of them can raise (`ending`), which leaves the
\* try block with the step's entry recorded; otherwise the loop goes on or
\* is left by the break.
AfterStep(a, valid, ending) ==
    /\ run_pc[a] = "after_step"
    /\ IF ending /= "none"
       THEN /\ exit_reason' = [exit_reason EXCEPT ![a] = left_by(ending)]
            /\ run_pc' = [run_pc EXCEPT ![a] = "cleanup"]
            /\ UNCHANGED <<step_idx, validation_failures>>
       ELSE LET next == after_step(history[a], step_idx[a], valid) IN
            IF next = "complete"
            THEN /\ exit_reason' = [exit_reason EXCEPT ![a] = "done"]
                 /\ run_pc' = [run_pc EXCEPT ![a] = "cleanup"]
                 /\ UNCHANGED <<step_idx, validation_failures>>
            ELSE /\ step_idx' = [step_idx EXCEPT ![a] = @ + 1]
                 /\ run_pc' = [run_pc EXCEPT ![a] = "top"]
                 /\ validation_failures' = [validation_failures EXCEPT ![a] =
                                               IF next = "continue" THEN @ + 1 ELSE @]
                 /\ UNCHANGED exit_reason
    /\ UNCHANGED <<steps_executed, consecutive_failures, history, paused, stopped, cleanup,
                   monitoring_active>>
    /\ UnchangedSettings
    /\ UNCHANGED <<apiVars, mainVars, reportVars, extVars>>

\* A KeyboardInterrupt while the run waits in signal_handler.wait_for_resume(),
\* browser_use_agent.py:131 and 187-190
ForcedInterrupt(a) ==
    /\ run_pc[a] = "wait_resume"
    /\ exit_reason' = [exit_reason EXCEPT ![a] = "interrupt"]
    /\ run_pc' = [run_pc EXCEPT ![a] = "cleanup"]
    /\ UNCHANGED <<step_idx, steps_executed, consecutive_failures, paused, stopped,
                   history, validation_failures, cleanup, monitoring_active>>
    /\ UnchangedSettings
    /\ UNCHANGED <<apiVars, mainVars, reportVars, extVars>>

\* The report data of a run: `fetched` once the local `screenshots` is bound
\* (browser_use_agent.py:340), `rebound` once clear_screenshots() has given
\* the instance another list since, `prepared` once the payload is complete.
\* While a rebound list waits for the payload, `screenshots` is what it holds.
NoReportData == [prepared |-> FALSE, errors |-> <<>>, screenshots |-> <<>>,
                 fetched |-> FALSE, rebound |-> FALSE]

\* `screenshots = screenshot_capture.get_screenshots()`,
\* browser_use_agent.py:340: the local variable is bound to the list of the
\* instance itself, before the awaits of the tests on the new page.
ScreenshotsFetched == [NoReportData EXCEPT !.fetched = TRUE]

\* The list the local variable is bound to, as it reads now: the list of the
\* instance with all it holds by now, unless the instance was given another
\* list meanwhile.
fetched_screenshots(rd) == IF rd.rebound THEN rd.screenshots ELSE screenshots

\* What the payload holds of the two module-level instances,
\* browser_use_agent.py:340, 391-392 and 569: get_all_errors() returns the
\* errors list itself after the tests, so the report has all it holds when
\* it is rendered; the screenshots are those of the list fetched before the
\* tests. The minimal payload has neither.
collected_report_data(pdf, rd) ==
    IF pdf.attempted /\ pdf.payload.kind = "full"
    THEN [rd EXCEPT !.prepared = TRUE, !.errors = monitor_errors,
                    !.screenshots = fetched_screenshots(rd)]
    ELSE NoReportData

\* How run() ends: it raises when the try block raised or the finally block
\* did, and returns the history otherwise.
run_ends(a, c) ==
    IF c.raised_by /= "None" \/ exit_reason[a] = "exception" THEN "raised" ELSE "returned"

\* stop_monitoring up to its await, error_monitor.py:83-88: the flag is
\* cleared and the detach of the session the monitor holds at this moment is
\* begun; without a session the call is over.
stop_monitoring(c) ==
    [c EXCEPT !.detaching = cdp_session, !.monitor_stopped = (cdp_session = "None")]

\* Where run() is after stop_monitoring was called
after_stop(a, c) == IF c.monitor_stopped THEN run_ends(a, c) ELSE "detach"

\* The session of agent a is gone (its browser closed or the session
\* detached): its handlers are called no more.
without_session(handlers, a) ==
    IF a \in Agents THEN [handlers EXCEPT ![a] = NoHandlers] ELSE handlers

\* The finally block up to the await after `await self.close()`,
\* browser_use_agent.py:192-232 and 280-353. An exception of close() or of
\* create_history_gif leaves run(). With the minimal payload the report is
\* rendered at once and stop_monitoring is called; with step statistics the
\* screenshots list is fetched (line 340) and the tests on a new page begin.
Cleanup(a, f, yields_fields) ==
    /\ run_pc[a] = "cleanup"
    /\ LET c == finally_phase(history[a], f, yields_fields) IN
       /\ cdp_handlers' = IF c.closed THEN without_session(cdp_handlers, a) ELSE cdp_handlers
       /\ IF c.raised_by /= "None"
          THEN /\ cleanup' = [cleanup EXCEPT ![a] = c]
               /\ run_pc' = [run_pc EXCEPT ![a] = "raised"]
               /\ UNCHANGED <<monitoring_active, report_data>>
          ELSE IF c.pdf.payload.kind = "minimal"
          THEN /\ cleanup' = [cleanup EXCEPT ![a] = stop_monitoring(c)]
               /\ run_pc' = [run_pc EXCEPT ![a] = after_stop(a, stop_monitoring(c))]
               /\ monitoring_active' = FALSE
               /\ report_data' = [report_data EXCEPT
                                      ![a] = collected_report_data(c.pdf, report_data[a])]
          ELSE /\ cleanup' = [cleanup EXCEPT ![a] = c]
               /\ run_pc' = [run_pc EXCEPT ![a] = "testing"]
               /\ report_data' = [report_data EXCEPT ![a] = ScreenshotsFetched]
               /\ UNCHANGED monitoring_active
    /\ UNCHANGED <<step_idx, steps_executed, consecutive_failures, paused, stopped,
                   history, validation_failures, exit_reason>>
    /\ UnchangedSettings
    /\ UNCHANGED <<monitor_errors, screenshots, cdp_session>>
    /\ UNCHANGED <<apiVars, mainVars, reportVars, utilVars>>

\* Largest number of errors and screenshots collected in one process.
MaxCaptured == 2

\* ---- the shared EnhancedAITestingEngine (enhanced_ai_testing.py)
\* Largest number of bugs reported and of run_comprehensive_testing calls of
\* one agent run.
MaxBugs == 3
MaxEngineCalls == 2

\* run_comprehensive_testing is entered by the run of agent `a`: the
\* accumulator is cleared in place, enhanced_ai_testing.py:165-170
StartTesting(a) ==
    /\ engine_pc[a] \in {"idle", "returned"}
    /\ engine_calls[a] < MaxEngineCalls
    /\ engine_calls' = [engine_calls EXCEPT ![a] = @ + 1]
    /\ bugs_found' = <<>>
    /\ found_in_call' = [found_in_call EXCEPT ![a] = <<>>]
    /\ engine_pc' = [engine_pc EXCEPT ![a] = "testing"]
    /\ UNCHANGED bug_count
    /\ UNCHANGED <<nonToolVars, nonBugsVars>>

\* A scenario of that call reports a bug, enhanced_ai_testing.py:540-562
AddBug(a) ==
    /\ engine_pc[a] = "testing"
    /\ bug_count < MaxBugs
    /\ bug_count' = bug_count + 1
    /\ LET bug == [id |-> bug_count + 1, found_by |-> a] IN
       /\ bugs_found' = Append(bugs_found, bug)
       /\ found_in_call' = [found_in_call EXCEPT ![a] = Append(@, bug)]
    /\ UNCHANGED <<engine_pc, engine_calls>>
    /\ UNCHANGED <<nonToolVars, nonBugsVars>>

\* return self.bugs_found, enhanced_ai_testing.py:179-180: the caller holds
\* the accumulator itself
FinishTesting(a) ==
    /\ engine_pc[a] = "testing"
    /\ engine_pc' = [engine_pc EXCEPT ![a] = "returned"]
    /\ UNCHANGED <<bugs_found, engine_calls, found_in_call, bug_count>>
    /\ UNCHANGED <<nonToolVars, nonBugsVars>>

\* The list the run of `a` got from its last call, as it reads now
enhanced_bugs(a) == bugs_found

\* EnhancedAITestingEngine.__init__, enhanced_ai_testing.py:51-55, and the
\* module-level engine, enhanced_ai_testing.py:635
InitBugs ==
    /\ bugs_found = <<>>
    /\ engine_pc = [a \in Agents |-> "idle"]
    /\ engine_calls = [a \in Agents |-> 0]
    /\ found_in_call = [a \in Agents |-> <<>>]
    /\ bug_count = 0

\* The tests on a new page call the shared engine,
\* browser_use_agent.py:353-370 and enhanced_ai_testing.py:165-170: the page
\* is had, advanced_testing_engine has returned, and
\* run_comprehensive_testing clears the one accumulator.
TestingEngineStart(a) ==
    /\ run_pc[a] = "testing"
    /\ engine_pc[a] = "idle"
    /\ StartTesting(a)

\* A scenario of the engine reports a bug while run() awaits it,
\* enhanced_ai_testing.py:173-177 and 545-562
TestingEngineReports(a) ==
    /\ run_pc[a] = "testing"
    /\ AddBug(a)

\* The engine returns its accumulator to the tests,
\* browser_use_agent.py:369-370 and enhanced_ai_testing.py:179-180; every
\* Exception of a scenario is caught inside the engine (lines 199, 229, 252,
\* 272, 292), so the call returns.
TestingEngineReturns(a) ==
    /\ run_pc[a] = "testing"
    /\ FinishTesting(a)

\* The end of the tests on a new page, browser_use_agent.py:372-386: when
\* both engines have returned, the one errors list is extended by the
\* `injected` errors get_injected_errors returns (line 374) and the page is
\* closed; when no page was had or new_page or advanced_testing_engine
\* raised, the shared engine was not called and nothing is appended (lines
\* 380-386).
AdvancedTesting(a, injected) ==
    /\ run_pc[a] = "testing"
    /\ \/ engine_pc[a] = "returned"
       \/ engine_pc[a] = "idle" /\ injected = 0
    /\ Len(monitor_errors) + Len(screenshots) + injected <= MaxCaptured
    /\ run_pc' = [run_pc EXCEPT ![a] = "render"]
    /\ monitor_errors' = monitor_errors \o [k \in 1..injected |-> a]
    /\ UNCHANGED <<screenshots, cdp_session, cdp_handlers, report_data>>
    /\ UNCHANGED <<step_idx, steps_executed, consecutive_failures, paused, stopped,
                   history, validation_failures, exit_reason, cleanup, monitoring_active>>
    /\ UnchangedSettings
    /\ UNCHANGED <<apiVars, mainVars, reportVars, utilVars>>

\* The rest of the payload and the report, browser_use_agent.py:388-635 and
\* 248-250, then stop_monitoring up to its await, error_monitor.py:83-88.
RenderReport(a, f) ==
    /\ run_pc[a] = "render"
    /\ LET c == rendered(cleanup[a], cleanup[a].pdf.payload, f.render) IN
       /\ report_data' = [report_data EXCEPT
                              ![a] = collected_report_data(c.pdf, report_data[a])]
       /\ IF c.raised_by /= "None"
          THEN /\ cleanup' = [cleanup EXCEPT ![a] = c]
               /\ run_pc' = [run_pc EXCEPT ![a] = "raised"]
               /\ UNCHANGED monitoring_active
          ELSE /\ cleanup' = [cleanup EXCEPT ![a] = stop_monitoring(c)]
               /\ run_pc' = [run_pc EXCEPT ![a] = after_stop(a, stop_monitoring(c))]
               /\ monitoring_active' = FALSE
    /\ UNCHANGED <<step_idx, steps_executed, consecutive_failures, paused, stopped,
                   history, validation_failures, exit_reason>>
    /\ UnchangedSettings
    /\ UNCHANGED <<monitor_errors, screenshots, cdp_session, cdp_handlers>>
    /\ UNCHANGED <<apiVars, mainVars, reportVars, utilVars>>

\* `await self.cdp_session.detach()` is over, error_monitor.py:86-90: the
\* session detached is the one the shared monitor held when stop_monitoring
\* was called, whichever run's it is; an exception is logged. Then run()
\* ends.
DetachSession(a) ==
    /\ run_pc[a] = "detach"
    /\ cleanup' = [cleanup EXCEPT ![a].monitor_stopped = TRUE]
    /\ cdp_handlers' = without_session(cdp_handlers, cleanup[a].detaching)
    /\ run_pc' = [run_pc EXCEPT ![a] = run_ends(a, cleanup[a])]
    /\ UNCHANGED <<step_idx, steps_executed, consecutive_failures, paused, stopped,
                   history, validation_failures, exit_reason, monitoring_active>>
    /\ UnchangedSettings
    /\ UNCHANGED <<monitor_errors, screenshots, cdp_session, report_data>>
    /\ UNCHANGED <<apiVars, mainVars, reportVars, utilVars>>

\* pause_callback=self.pause, browser_use_agent.py:90
Pause(a) ==
    /\ run_pc[a] \in RunningPcs
    /\ ~paused[a]
    /\ paused' = [paused EXCEPT ![a] = TRUE]
    /\ UNCHANGED <<run_pc, step_idx, steps_executed, consecutive_failures, stopped,
                   history, validation_failures, exit_reason, cleanup, monitoring_active>>
    /\ UnchangedSettings
    /\ UNCHANGED <<apiVars, mainVars, reportVars, extVars>>

\* resume_callback=self.resume, browser_use_agent.py:91; it also ends
\* signal_handler.wait_for_resume(), browser_use_agent.py:131-132
Resume(a) ==
    /\ run_pc[a] \in RunningPcs
    /\ paused[a]
    /\ paused' = [paused EXCEPT ![a] = FALSE]
    /\ run_pc' = [run_pc EXCEPT ![a] = IF @ = "wait_resume" THEN "check" ELSE @]
    /\ UNCHANGED <<step_idx, steps_executed, consecutive_failures, stopped,
                   history, validation_failures, exit_reason, cleanup, monitoring_active>>
    /\ UnchangedSettings
    /\ UNCHANGED <<apiVars, mainVars, reportVars, extVars>>

\* self.state.stopped is set from outside the run
Stop(a) ==
    /\ run_pc[a] \in RunningPcs
    /\ ~stopped[a]
    /\ stopped' = [stopped EXCEPT ![a] = TRUE]
    /\ UNCHANGED <<run_pc, step_idx, steps_executed, consecutive_failures, paused,
                   history, validation_failures, exit_reason, cleanup, monitoring_active>>
    /\ UnchangedSettings
    /\ UNCHANGED <<apiVars, mainVars, reportVars, extVars>>

\* The agents in `started` are about to run; the others never do.
InitRun(started) ==
    /\ run_pc = [a \in Agents |-> IF a \in started THEN "start" ELSE "idle"]
    /\ step_idx = [a \in Agents |-> 0]
    /\ steps_executed = [a \in Agents |-> 0]
    /\ consecutive_failures = [a \in Agents |-> 0]
    /\ paused = [a \in Agents |-> FALSE]
    /\ stopped = [a \in Agents |-> FALSE]
    /\ history = [a \in Agents |-> <<>>]
    /\ validation_failures = [a \in Agents |-> 0]
    /\ exit_reason = [a \in Agents |-> "None"]
    /\ cleanup = [a \in Agents |-> NoCleanup]
    /\ monitoring_active = FALSE
    /\ monitor_errors = <<>>
    /\ screenshots = <<>>
    /\ cdp_session = "None"
    /\ cdp_handlers = [a \in Agents |-> NoHandlers]
    /\ report_data = [a \in Agents |-> NoReportData]

NoFaults == [close |-> FALSE, gif |-> FALSE, render |-> FALSE]

\* The steps of run() itself, with the faults of `faults` in its finally
\* block, tests that find no bug and at most one injected error
AgentStep(a, faults) ==
    \/ \E has_page \in BOOLEAN : StartRun(a, has_page)
    \/ \E session_ok \in BOOLEAN : NewCdpSession(a, session_ok)
    \/ RegisterConsoleHandlers(a, TRUE)
    \/ RegisterJavascriptHandlers(a, TRUE)
    \/ RegisterNetworkHandlers(a, TRUE)
    \/ RegisterPerformanceHandlers(a, TRUE)
    \/ \E ending \in Endings : InitialActions(a, ending)
    \/ LoopTop(a)
    \/ CheckFlags(a)
    \/ PauseWait(a)
    \/ \E ending \in Endings : StepHookRaises(a, ending)
    \/ \E outcome \in StepOutcomes : Step(a, outcome)
    \/ \E valid \in BOOLEAN, ending \in Endings : AfterStep(a, valid, ending)
    \/ \E f \in faults, yields_fields \in BOOLEAN : Cleanup(a, f, yields_fields)
    \/ TestingEngineStart(a)
    \/ TestingEngineReturns(a)
    \/ \E injected \in 0..1 : AdvancedTesting(a, injected)
    \/ \E f \in faults : RenderReport(a, f)
    \/ DetachSession(a)

\* What reaches the run from outside: the interrupt handler's callbacks and
\* the stop flag
Interrupts(a) ==
    \/ Pause(a)
    \/ Resume(a)
    \/ Stop(a)
    \/ ForcedInterrupt(a)

\* The page of agent a is open: its run has begun and close() has not come
\* to its end, browser_use_agent.py:214; it stays open when close() raised.
PageOpen(a) == run_pc[a] \notin {"idle", "start", "session"} /\ ~cleanup[a].closed

\* The events of a page that a handler of the monitor records: a console
\* error or warning, a thrown exception, a response with a status of 400 or
\* more or a failed request, and metrics with one slow task.
EventKinds == {"console", "exception", "network", "performance"}

\* The handlers of a session that an event of the kind reaches:
\* _handle_console_message for a console message; _handle_runtime_exception
\* and _handle_javascript_exception for a thrown exception;
\* _handle_network_response or _handle_network_failure for the network;
\* _handle_performance_metrics for the metrics, error_monitor.py:104-105,
\* 120, 134-135 and 166.
handlers_for(h, kind) ==
    IF kind = "console" THEN h.console
    ELSE IF kind = "exception" THEN h.exception
    ELSE IF kind = "network" THEN h.network
    ELSE h.performance

\* An event of agent a's page reaches the handlers registered on its
\* session, error_monitor.py:379-518: each handler appends one record to the
\* one errors list, whether monitoring_active is set or not.
MonitorEvent(a, kind) ==
    /\ cdp_handlers[a].live
    /\ handlers_for(cdp_handlers[a], kind) > 0
    /\ PageOpen(a)
    /\ Len(monitor_errors) + Len(screenshots) + handlers_for(cdp_handlers[a], kind)
          <= MaxCaptured
    /\ monitor_errors' = monitor_errors \o [k \in 1..handlers_for(cdp_handlers[a], kind) |-> a]
    /\ UNCHANGED <<screenshots, cdp_session, cdp_handlers, report_data>>
    /\ UNCHANGED <<apiVars, mainVars, reportVars, runVars, utilVars>>

\* A screenshot is taken for agent a and appended to the one screenshots
\* list, screenshot_capture.py:31-73 and 250-267: whoever calls the capture
\* function, at whatever point of the run.
ScreenshotTaken(a) ==
    /\ Len(monitor_errors) + Len(screenshots) < MaxCaptured
    /\ screenshots' = Append(screenshots, a)
    /\ UNCHANGED <<monitor_errors, cdp_session, cdp_handlers, report_data>>
    /\ UNCHANGED <<apiVars, mainVars, reportVars, runVars, utilVars>>

\* ErrorMonitor.clear_errors(), error_monitor.py:604-611: the one errors
\* list is emptied, whoever's records it holds.
ClearErrors ==
    /\ monitor_errors /= <<>>
    /\ monitor_errors' = <<>>
    /\ UNCHANGED <<screenshots, cdp_session, cdp_handlers, report_data>>
    /\ UNCHANGED <<apiVars, mainVars, reportVars, runVars, utilVars>>

\* The runs that hold the list of the instance for their payload
holders == {a \in Agents : /\ report_data[a].fetched
                           /\ ~report_data[a].prepared
                           /\ ~report_data[a].rebound}

\* ScreenshotCapture.clear_screenshots(), screenshot_capture.py:208-210:
\* `self.screenshots = []` gives the instance a new list, whoever's records
\* the old one holds; a run that fetched the old list keeps it as it is.
ClearAllScreenshots ==
    /\ screenshots /= <<>> \/ holders /= {}
    /\ screenshots' = <<>>
    /\ report_data' = [a \in Agents |->
           IF a \in holders
           THEN [report_data[a] EXCEPT !.rebound = TRUE, !.screenshots = screenshots]
           ELSE report_data[a]]
    /\ UNCHANGED <<monitor_errors, cdp_session, cdp_handlers>>
    /\ UNCHANGED <<apiVars, mainVars, reportVars, runVars, utilVars>>

\* ------------------------------------------------------------------ Vibetest fan-out
\* Largest number of agents of a fan-out explored (--agents, default 3).
MaxFanAgents == 3

FanModes == {"cli", "mcp"}
FanIds == 1..fan_agents

\* The number of tasks an entry point creates: range(args.agents) in main,
\* Vibetest.py:152-155; range(max(1, int(agents))) in vibetest_run, 219-224
task_count(mode, agents) ==
    IF mode = "mcp" THEN (IF agents < 1 THEN 1 ELSE agents)
    ELSE (IF agents < 0 THEN 0 ELSE agents)

NoResult == [kind |-> "None", agent_id |-> 0, success |-> FALSE, report |-> "None"]
\* The exception object a raising task leaves in its slot: an Exception, or
\* asyncio.CancelledError, which is a BaseException and not an Exception
ExceptionResult(i, kind) == [kind |-> kind, agent_id |-> i, success |-> FALSE,
                             report |-> "None"]
\* The dict run_single_agent returns, Vibetest.py:128
DictResult(i, success, report) ==
    [kind |-> "dict", agent_id |-> i, success |-> success, report |-> report]

NoConfig == [constructed |-> FALSE, use_vision |-> FALSE, headless_env |-> "unset"]

\* run_single_agent up to `await agent.run(...)`, Vibetest.py:60-112: the
\* environment variable is set, the model client and the Agent are built;
\* nothing is awaited, so the whole is one step of the event loop. Tasks get
\* their first turn in the order gather received them.
TaskStart(i, built) ==
    /\ fan_pc = "gathering"
    /\ i \in FanIds
    /\ task_pc[i] = "pending"
    /\ \A j \in FanIds : j < i => task_pc[j] /= "pending"
    /\ headless_env' = IF i = 1 THEN "0" ELSE "1"
    /\ IF built
       THEN /\ agent_config' = [agent_config EXCEPT ![i] =
                  [constructed |-> TRUE, use_vision |-> (i = 1),
                   headless_env |-> headless_env']]
            /\ task_pc' = [task_pc EXCEPT ![i] = "running"]
            /\ UNCHANGED task_result
       ELSE /\ task_pc' = [task_pc EXCEPT ![i] = "raised"]
            /\ task_result' = [task_result EXCEPT ![i] = ExceptionResult(i, "exception")]
            /\ UNCHANGED agent_config
    /\ UNCHANGED <<fan_mode, fan_agents, fan_pc, fan_out, helpers>>
    /\ UNCHANGED <<apiVars, mainVars, reportVars, runVars, monitorVars, nonFanVars>>

\* How `await agent.run(...)` ends, Vibetest.py:112: with a history, with an
\* Exception, or with asyncio.CancelledError
RunResults == {"success", "unsuccessful", "raise", "cancelled"}

\* report_file of run_single_agent, Vibetest.py:114-126: None when the helper
\* is absent or raises
report_file(report_ok) == IF helpers /\ report_ok THEN "file" ELSE "None"

\* The rest of run_single_agent, Vibetest.py:112-128: agent.run returns a
\* history or raises. The task is not cancelled when a sibling raised.
TaskFinish(i, run_result, report_ok) ==
    /\ i \in FanIds
    /\ task_pc[i] = "running"
    /\ IF run_result \in {"raise", "cancelled"}
       THEN /\ task_pc' = [task_pc EXCEPT ![i] = "raised"]
            /\ task_result' = [task_result EXCEPT ![i] =
                  ExceptionResult(i, IF run_result = "raise" THEN "exception"
                                     ELSE "cancelled")]
       ELSE /\ task_pc' = [task_pc EXCEPT ![i] = "returned"]
            /\ task_result' = [task_result EXCEPT ![i] =
                  DictResult(i, run_result = "success", report_file(report_ok))]
    /\ UNCHANGED <<fan_mode, fan_agents, fan_pc, headless_env, agent_config, fan_out,
                   helpers>>
    /\ UNCHANGED <<apiVars, mainVars, reportVars, runVars, monitorVars, nonFanVars>>

AllTasksOver == \A i \in FanIds : task_pc[i] \in {"returned", "raised"}
SomeTaskRaised == \E i \in FanIds : task_pc[i] = "raised"
SomeTaskReturned == \E i \in FanIds : task_pc[i] = "returned"

\* `results`: one slot per task, in the order of the tasks
results == [i \in FanIds |-> task_result[i]]

IsDict(r) == r.kind = "dict"
\* isinstance(r, Exception), Vibetest.py:164 and 228
IsException(r) == r.kind = "exception"
HasReport(r) == r.kind = "dict" /\ r.report /= "None"
IdsOf(rs) == [k \in 1..Len(rs) |-> rs[k].agent_id]

NoFanOut == [returned |-> FALSE, raised |-> FALSE, ok |-> 0, errors |-> 0,
             histories |-> <<>>, reports |-> <<>>, combined |-> "None"]

\* The combined report, Vibetest.py:177-194 and 233-247: made only when the
\* helper was imported and a history was collected
combined_report(hs, combined_ok) ==
    IF ~helpers \/ Len(hs) = 0 THEN "None"
    ELSE IF combined_ok THEN "path" ELSE "failed"

\* The loop over results, Vibetest.py:160-175 and 225-232, and the combined
\* report. A slot that is not an Exception is subscripted as a dict: for a
\* CancelledError in the slot, r["history"] raises TypeError out of main. In
\* main a failing combined report is caught; in vibetest_run it is not.
collect(rs, combined_ok) ==
    LET hs == SelectSeq(rs, IsDict)
        combined == combined_report(hs, combined_ok)
        type_error == \E k \in 1..Len(rs) : ~IsException(rs[k]) /\ ~IsDict(rs[k])
    IN
    IF type_error THEN [NoFanOut EXCEPT !.raised = TRUE]
    ELSE
    [returned |-> ~(fan_mode = "mcp" /\ combined = "failed"),
     raised |-> (fan_mode = "mcp" /\ combined = "failed"),
     ok |-> Cardinality({k \in 1..Len(rs) : IsDict(rs[k]) /\ rs[k].success}),
     errors |-> Cardinality({k \in 1..Len(rs) : IsException(rs[k])}),
     histories |-> IdsOf(hs),
     reports |-> IdsOf(SelectSeq(rs, HasReport)),
     combined |-> IF combined = "failed" THEN "None" ELSE combined]

\* asyncio.gather(*tasks, return_exceptions=True) in main, Vibetest.py:157;
\* asyncio.gather(*[...]) in vibetest_run, Vibetest.py:219-224
return_exceptions(mode) == mode = "cli"

\* The await of the gather ends. With return_exceptions the results arrive
\* when every task is over, exceptions in their slots; without, the first
\* exception of a task is raised out of the await at once and nothing is
\* collected, while the other tasks run on.
Gather(combined_ok) ==
    /\ fan_pc = "gathering"
    /\ IF return_exceptions(fan_mode)
       THEN /\ AllTasksOver
            /\ fan_out' = collect(results, combined_ok)
            /\ fan_pc' = IF fan_out'.raised THEN "raised" ELSE "collected"
       ELSE /\ SomeTaskRaised \/ AllTasksOver
            /\ IF SomeTaskRaised
               THEN /\ fan_out' = [NoFanOut EXCEPT !.raised = TRUE]
                    /\ fan_pc' = "raised"
               ELSE /\ fan_out' = collect(results, combined_ok)
                    /\ fan_pc' = IF fan_out'.raised THEN "raised" ELSE "collected"
    /\ UNCHANGED <<fan_mode, fan_agents, task_pc, task_result, headless_env, agent_config,
                   helpers>>
    /\ UNCHANGED <<apiVars, mainVars, reportVars, runVars, monitorVars, nonFanVars>>

\* An entry point has created its tasks, Vibetest.py:152-155 and 219-224; the
\* import of the helpers, Vibetest.py:30-41, has succeeded or has not
InitFan(modes, counts) ==
    /\ fan_mode \in modes
    /\ fan_agents \in {task_count(fan_mode, agents) : agents \in counts}
    /\ helpers \in BOOLEAN
    /\ fan_pc = "gathering"
    /\ task_pc = [i \in 1..MaxFanAgents |-> "pending"]
    /\ task_result = [i \in 1..MaxFanAgents |-> NoResult]
    /\ headless_env = "unset"
    /\ agent_config = [i \in 1..MaxFanAgents |-> NoConfig]
    /\ fan_out = NoFanOut

\* No fan-out is run
InitFanIdle ==
    /\ fan_mode = "cli"
    /\ fan_agents = 0
    /\ helpers = FALSE
    /\ fan_pc = "idle"
    /\ task_pc = [i \in 1..MaxFanAgents |-> "pending"]
    /\ task_result = [i \in 1..MaxFanAgents |-> NoResult]
    /\ headless_env = "unset"
    /\ agent_config = [i \in 1..MaxFanAgents |-> NoConfig]
    /\ fan_out = NoFanOut

\* ------------------------------------------------------------------ AdvancedErrorHandler
\* Number of attempt_error_recovery calls explored in one behaviour.
MaxRecoveryCalls == 5

\* The cap of advanced_error_handler.py:344
max_recovery_attempts == 3

\* type(error).__name__ of the errors handled, advanced_error_handler.py:70
ErrorTypes == {<<"E","r","r","o","r">>,
               <<"T","i","m","e","o","u","t","E","r","r","o","r">>}

\* An action the form tester reports (intelligent_form_testing.py:719), and an
\* action_context without the key 'action'
NoAction == <<>>
ActionInputs == {<<"f","i","l","l","_","f","i","e","l","d">>, NoAction}

\* error.action_context.get('action', 'unknown')
action_or_unknown(action) ==
    IF action = NoAction THEN <<"u","n","k","n","o","w","n">> ELSE action

\* f"{error.error_type}_{error.action_context.get('action', 'unknown')}",
\* advanced_error_handler.py:341
recovery_key(error_type, action) ==
    error_type \o <<"_">> \o action_or_unknown(action)

MsgNotFound == <<"E","l","e","m","e","n","t"," ","N","o","t"," ","F","o","u","n","d">>
MsgNotVisible == <<"N","o","t"," ","V","i","s","i","b","l","e">>
MsgInputText == <<"i","n","p","u","t"," ","t","e","x","t">>
MsgCrashed == <<"C","r","a","s","h","e","d">>
RecoveryMessages == {MsgNotFound, MsgNotVisible, MsgTimeout, MsgCrashed}

\* The strategy chosen for a message, advanced_error_handler.py:352-359
recovery_strategy(msg) ==
    LET low == Lower(msg) IN
    IF Contains(low, <<"n","o","t"," ","f","o","u","n","d">>) THEN "element_not_found"
    ELSE IF Contains(low, <<"n","o","t"," ","v","i","s","i","b","l","e">>)
    THEN "element_not_visible"
    ELSE IF Contains(low, <<"i","n","p","u","t"," ","t","e","x","t">>) THEN "input_text_error"
    ELSE IF Contains(low, <<"t","i","m","e","o","u","t">>) THEN "timeout_error"
    ELSE "none"

\* self.recovery_attempts.get(recovery_key, 0)
AttemptsOf(d, k) == IF k \in DOMAIN d THEN d[k] ELSE 0

\* A slip: the cap lets one attempt more through.
cap_reached_late(n) == n > max_recovery_attempts

\* self.recovery_attempts.get(recovery_key, 0) >= 3, advanced_error_handler.py:344
cap_reached(n) == n >= max_recovery_attempts

NoRecovery == [key |-> <<>>, before |-> 0, strategy |-> "none", ret |-> FALSE,
               over |-> TRUE]

\* Whether the strategy awaits before it returns, advanced_error_handler.py:
\* 366-415: _recover_element_not_found sleeps, _recover_timeout_error sleeps;
\* _recover_element_not_visible and _recover_input_text_error await the
\* locator only for an element_info with an index, and return False at once
\* without one.
strategy_awaits(strategy, has_index) ==
    \/ strategy \in {"element_not_found", "timeout_error"}
    \/ strategy \in {"element_not_visible", "input_text_error"} /\ has_index

\* Whether element_info has an index: told apart for the messages whose
\* strategy reads it
IndexInputs(msg) ==
    IF recovery_strategy(msg) \in {"element_not_visible", "input_text_error"}
    THEN BOOLEAN ELSE {FALSE}

\* attempt_error_recovery up to its first await, advanced_error_handler.py:
\* 339-359: the refusal at the cap, the count of the attempt, the choice of the
\* strategy. `over` tells that the call has returned (False) without awaiting.
attempt_error_recovery(d, error_type, action, msg, has_index) ==
    LET key == recovery_key(error_type, action)
        before == AttemptsOf(d, key)
        strategy == recovery_strategy(msg)
    IN
    IF cap_reached(before)
    THEN [attempts |-> d,
          call |-> [key |-> key, before |-> before, strategy |-> "none", ret |-> FALSE,
                    over |-> TRUE]]
    ELSE [attempts |-> [k \in DOMAIN d \cup {key} |-> IF k = key THEN before + 1 ELSE d[k]],
          call |-> [key |-> key, before |-> before, strategy |-> strategy,
                    ret |-> FALSE, over |-> ~strategy_awaits(strategy, has_index)]]

\* A call of attempt_error_recovery runs to its first await, or to its return
\* when it awaits nothing.
AttemptErrorRecovery(error_type, action, msg, has_index) ==
    /\ recovery_calls < MaxRecoveryCalls
    /\ recovery_calls' = recovery_calls + 1
    /\ LET r == attempt_error_recovery(recovery_attempts, error_type, action, msg, has_index)
           key == r.call.key
       IN /\ recovery_attempts' = r.attempts
          /\ last_recovery' = r.call
          /\ recovery_pending' =
                IF r.call.over THEN recovery_pending
                ELSE [k \in DOMAIN recovery_pending \cup {key} |->
                         IF k = key THEN AttemptsOf(recovery_pending, key) + 1
                         ELSE recovery_pending[k]]
    /\ UNCHANGED <<apiVars, mainVars, reportVars, runVars, monitorVars, nonRecoveryVars>>

\* The await of a strategy ends and the call returns what the strategy
\* returns, advanced_error_handler.py:353-359 and 366-415: True, or False when
\* no similar element is visible, the index is out of range or the await
\* raised.
RecoveryReturns(key, recovered) ==
    /\ AttemptsOf(recovery_pending, key) > 0
    /\ recovery_pending' = [k \in {x \in DOMAIN recovery_pending :
                                        x /= key \/ recovery_pending[x] > 1} |->
                                IF k = key THEN recovery_pending[k] - 1
                                ELSE recovery_pending[k]]
    /\ last_recovery' = [key |-> key, before |-> AttemptsOf(recovery_attempts, key),
                         strategy |-> "awaited", ret |-> recovered, over |-> TRUE]
    /\ UNCHANGED <<recovery_attempts, recovery_calls>>
    /\ UNCHANGED <<apiVars, mainVars, reportVars, runVars, monitorVars, nonRecoveryVars>>

\* AdvancedErrorHandler.__init__, advanced_error_handler.py:39-42
InitRecovery ==
    /\ recovery_attempts = <<>>
    /\ recovery_calls = 0
    /\ last_recovery = NoRecovery
    /\ recovery_pending = <<>>

\* ------------------------------------------------------------------ SiteAuditor.audit
\* Largest page budget and depth budget explored.
MaxPagesInput == 3
MaxDepthInput == 2
\* Largest number of links extracted from one page in the model.
MaxLinks == 2

\* The URLs of the link graph: three pages of the seed's origin, a page of
\* another host and a page of the seed's host under another scheme.
Url(scheme, netloc, path) == [scheme |-> scheme, netloc |-> netloc, path |-> path]
SeedUrl == Url("https", "site", "/")
Urls == {SeedUrl, Url("https", "site", "/a"), Url("https", "site", "/b"),
         Url("https", "other", "/"),
         Url("http", "site", "/")}

\* _origin, site_audit.py:140-142
origin_of(url) == <<url.scheme, "://", url.netloc>>

\* The lists of links a page can hold
LinkLists == UNION {[1..n -> Urls] : n \in 0..MaxLinks}

\* A slip: the page budget lets one page more through.
loop_continues_one_more(q, v) == q /= <<>> /\ Cardinality(v) <= max_pages

\* while queue and len(visited) < max_pages, site_audit.py:38
loop_continues(q, v) == q /= <<>> /\ Cardinality(v) < max_pages

\* if url in visited or depth > max_depth: continue, site_audit.py:40
skipped(url, depth) == url \in visited \/ depth > max_depth

IsSameOrigin(l) == origin_of(l) = origin_of(start_url)

\* The links to enqueue, site_audit.py:57 and 87-89: those of the seed's
\* origin that are not in `visited`, which holds the page itself by then.
links_to_enqueue(links, seen, depth) ==
    LET NotSeen(l) == l \notin seen
        kept == SelectSeq(SelectSeq(links, IsSameOrigin), NotSeen)
    IN [k \in 1..Len(kept) |-> <<kept[k], depth + 1>>]

\* No iteration is at a page
NoPage == [url |-> SeedUrl, depth |-> 0]

\* An iteration of the while loop up to `await self.page.goto(url, ...)`,
\* site_audit.py:38-45: the entry is taken off the queue and its url is added
\* to `visited` before the page is gone to.
AuditVisit ==
    /\ audit_pc = "loop"
    /\ loop_continues(queue, visited)
    /\ LET url == Head(queue)[1]
           depth == Head(queue)[2]
       IN
       /\ ~skipped(url, depth)
       /\ visited' = visited \cup {url}
       /\ audit_page' = [url |-> url, depth |-> depth]
    /\ queue' = Tail(queue)
    /\ audit_pc' = "page"
    /\ UNCHANGED <<start_url, max_pages, max_depth, pages_summary>>
    /\ UNCHANGED <<apiVars, mainVars, reportVars, runVars, monitorVars, nonCrawlVars>>

\* The rest of the iteration, site_audit.py:45-93, once the form tests of the
\* page, if it has a form, are over. `links` are the links of the page; with
\* ~nav_ok the navigation or the extraction raised, the page is recorded with
\* the error and nothing is enqueued. What the form tests raise is recorded
\* in the page's result (lines 81-82) and the iteration goes on.
AuditSummary(links, nav_ok) ==
    /\ \/ audit_pc = "page"
       \/ audit_pc = "form" /\ form_pc \in {"done", "raised"} /\ nav_ok
    /\ pages_summary' = Append(pages_summary,
           [url |-> audit_page.url, depth |-> audit_page.depth, error |-> ~nav_ok])
    /\ queue' = IF nav_ok
                THEN queue \o links_to_enqueue(links, visited, audit_page.depth)
                ELSE queue
    /\ audit_page' = NoPage
    /\ audit_pc' = "loop"
    /\ UNCHANGED <<start_url, max_pages, max_depth, visited>>
    /\ UNCHANGED <<apiVars, mainVars, reportVars, runVars, monitorVars, nonCrawlVars>>

\* An iteration that drops a visited or too deep entry, site_audit.py:39-41
AuditSkip ==
    /\ audit_pc = "loop"
    /\ loop_continues(queue, visited)
    /\ skipped(Head(queue)[1], Head(queue)[2])
    /\ queue' = Tail(queue)
    /\ UNCHANGED <<start_url, max_pages, max_depth, visited, pages_summary,
                   audit_page, audit_pc>>
    /\ UNCHANGED <<apiVars, mainVars, reportVars, runVars, monitorVars, nonCrawlVars>>

\* The loop is over and the summary is returned, site_audit.py:38 and 95-100
AuditReturn ==
    /\ audit_pc = "loop"
    /\ ~loop_continues(queue, visited)
    /\ audit_pc' = "returned"
    /\ UNCHANGED <<start_url, max_pages, max_depth, visited, queue, pages_summary,
                   audit_page>>
    /\ UNCHANGED <<apiVars, mainVars, reportVars, runVars, monitorVars, nonCrawlVars>>

\* audit(start_url, max_pages, max_depth) is entered, site_audit.py:29-36
InitCrawl ==
    /\ start_url = SeedUrl
    /\ max_pages \in 1..MaxPagesInput
    /\ max_depth \in 0..MaxDepthInput
    /\ visited = {}
    /\ queue = <<<<start_url, 0>>>>
    /\ pages_summary = <<>>
    /\ audit_page = NoPage
    /\ audit_pc = "loop"

\* No audit is run
InitCrawlIdle ==
    /\ start_url = SeedUrl
    /\ max_pages = 1
    /\ max_depth = 0
    /\ visited = {}
    /\ queue = <<>>
    /\ pages_summary = <<>>
    /\ audit_page = NoPage
    /\ audit_pc = "idle"

\* ------------------------------------------------------------------ check_broken_urls
\* Largest number of links on the page and of responses to one request.
MaxProbes == 2
MaxHops == 2

\* page.url
PageUrl == <<"h","t","t","p","s",":","/","/","s","i","t","e","/","p">>

\* The href attributes met: none, a path, an anchor, a mailto link and an
\* absolute URL.
HrefPath == <<"/","x">>
HrefAbsolute == <<"h","t","t","p",":","/","/","o","/","y">>
Hrefs == {<<>>, HrefPath, <<"#","t">>, <<"m","a","i","l","t","o",":","a">>, HrefAbsolute}

\* str.startswith
StartsWith(s, prefix) ==
    /\ Len(s) >= Len(prefix)
    /\ \A i \in 1..Len(prefix) : s[i] = prefix[i]

\* str.split(sep) for a one-character separator
RECURSIVE split(_, _)
split(s, sep) ==
    IF \A i \in 1..Len(s) : s[i] /= sep
    THEN <<s>>
    ELSE LET i == CHOOSE k \in 1..Len(s) : s[k] = sep /\ \A j \in 1..(k - 1) : s[j] /= sep
         IN <<SubSeq(s, 1, i - 1)>> \o split(SubSeq(s, i + 1, Len(s)), sep)

\* The URL requested for an href, or NoUrl for a link that is passed over,
\* advanced_testing.py:617-626
NoUrl == <<>>
resolve_href(href, page_url) ==
    IF href = <<>> THEN NoUrl
    ELSE IF StartsWith(href, <<"/">>)
    THEN split(page_url, "/")[1] \o <<"/","/">> \o split(page_url, "/")[3] \o href
    ELSE IF StartsWith(href, <<"#">>) THEN NoUrl
    ELSE IF ~StartsWith(href, <<"h","t","t","p">>) THEN NoUrl
    ELSE href

\* What a server answers to one request: a response with a status and
\* possibly a Location header, or a failure of the connection.
NoLocation == <<>>
Location == <<"h","t","t","p",":","/","/","o","/","z">>
MsgConnection == <<"C","o","n","n","e","c","t","i","o","n"," ","r","e","f","u","s","e","d">>
MsgReadTimeout == <<"R","e","a","d"," ","t","i","m","e","d"," ","o","u","t">>
Hops == [kind : {"response"}, status : {200, 301, 304, 404}, location : {NoLocation, Location},
         text : {NoMsg}]
        \cup [kind : {"exception"}, status : {0}, location : {NoLocation},
              text : {MsgConnection, MsgReadTimeout}]

\* The statuses requests follows when the response names a location
IsRedirect(hop) ==
    hop.kind = "response" /\ hop.status \in {301, 302, 303, 307, 308} /\ hop.location /= NoLocation

\* The answers to one requests.get: every answer but the last is a redirect
\* that is followed to the next.
Chains == {c \in UNION {[1..n -> Hops] : n \in 1..MaxHops} :
              /\ \A i \in 1..(Len(c) - 1) : IsRedirect(c[i])
              /\ ~IsRedirect(c[Len(c)])}

\* requests.get(href, timeout=10, allow_redirects=...): the response handed
\* back, or the RequestException raised
RECURSIVE get_from(_, _, _, _)
get_from(chain, i, url, allow_redirects) ==
    LET hop == chain[i] IN
    IF hop.kind = "exception"
    THEN [raised |-> TRUE, status_code |-> 0, url |-> url, error |-> hop.text]
    ELSE IF allow_redirects /\ IsRedirect(hop) /\ i < Len(chain)
    THEN get_from(chain, i + 1, hop.location, allow_redirects)
    ELSE [raised |-> FALSE, status_code |-> hop.status, url |-> url, error |-> NoMsg]

requests_get(href, chain, allow_redirects) == get_from(chain, 1, href, allow_redirects)

\* await link.inner_text() or "No text"
LinkTexts == {<<>>, <<"H","o","m","e">>}
text_or_default(t) == IF t = <<>> THEN <<"N","o"," ","t","e","x","t">> ELSE t

\* TestResult(...) of the three branches, advanced_testing.py:631-680. A
\* detail the branch does not set is 0 or the empty string.
NoTestResult == [test_name |-> "None", status |-> "None", url |-> NoUrl, status_code |-> 0,
             redirect_url |-> NoUrl, error |-> NoMsg, link_text |-> <<>>]
classify(href, response, text) ==
    IF response.raised
    THEN [test_name |-> "Unreachable URL", status |-> "FAILED", url |-> href,
          status_code |-> 0, redirect_url |-> NoUrl, error |-> response.error,
          link_text |-> text_or_default(text)]
    ELSE IF response.status_code >= 400
    THEN [test_name |-> "Broken URL", status |-> "FAILED", url |-> href,
          status_code |-> response.status_code, redirect_url |-> NoUrl, error |-> NoMsg,
          link_text |-> text_or_default(text)]
    ELSE IF response.status_code >= 300
    THEN [test_name |-> "Redirect URL", status |-> "WARNING", url |-> href,
          status_code |-> response.status_code, redirect_url |-> response.url,
          error |-> NoMsg, link_text |-> text_or_default(text)]
    ELSE NoTestResult

NoProbe == [url |-> NoUrl, chain |-> <<>>, recorded |-> NoTestResult]

\* One link of the loop, advanced_testing.py:616-685. The text of the link is
\* read while the TestResult is built: when `await link.inner_text()` raises
\* (~text_ok), nothing is appended and the outer handler (line 682) ends the
\* loop.
CheckLink(href, chain, text, text_ok) ==
    /\ url_pc = "loop"
    /\ links_left > 0
    /\ LET url == resolve_href(href, PageUrl) IN
       IF url = NoUrl
       THEN /\ links_left' = links_left - 1
            /\ UNCHANGED <<url_results, last_probe, url_pc>>
       ELSE LET result == classify(url, requests_get(url, chain, TRUE), text) IN
            IF result /= NoTestResult /\ ~text_ok
            THEN /\ url_pc' = "returned"
                 /\ last_probe' = [url |-> url, chain |-> chain, recorded |-> NoTestResult]
                 /\ UNCHANGED <<url_results, links_left>>
            ELSE /\ links_left' = links_left - 1
                 /\ url_results' = IF result = NoTestResult THEN url_results
                                   ELSE Append(url_results, result)
                 /\ last_probe' = [url |-> url, chain |-> chain, recorded |-> result]
                 /\ UNCHANGED url_pc
    /\ UNCHANGED <<apiVars, mainVars, reportVars, runVars, monitorVars, nonProbeVars>>

\* The page raises while the links are read: the results so far are returned,
\* advanced_testing.py:682-685
CheckAborted ==
    /\ url_pc = "loop"
    /\ links_left > 0
    /\ url_pc' = "returned"
    /\ UNCHANGED <<url_results, links_left, last_probe>>
    /\ UNCHANGED <<apiVars, mainVars, reportVars, runVars, monitorVars, nonProbeVars>>

\* return results, advanced_testing.py:685
CheckReturn ==
    /\ url_pc = "loop"
    /\ links_left = 0
    /\ url_pc' = "returned"
    /\ UNCHANGED <<url_results, links_left, last_probe>>
    /\ UNCHANGED <<apiVars, mainVars, reportVars, runVars, monitorVars, nonProbeVars>>

\* check_broken_urls(page) is entered on a page with `n` links
InitProbe(counts) ==
    /\ url_results = <<>>
    /\ links_left \in counts
    /\ last_probe = NoProbe
    /\ url_pc = "loop"

\* No page is checked
InitProbeIdle ==
    /\ url_results = <<>>
    /\ links_left = 0
    /\ last_probe = NoProbe
    /\ url_pc = "idle"

\* ------------------------------------------------------------------ CredentialManager
\* Largest number of credential sets added to or imported into the catalog,
\* and of entries of one imported file.
MaxAddedSets == 2
MaxImported == 2

CredentialSet(name, email, password, is_valid, category) ==
    [name |-> name, email |-> email, password |-> password,
     is_valid |-> is_valid, category |-> category]

\* _initialize_default_credentials, credential_manager.py:64-176. A character
\* outside ASCII is written as its code point.
default_credentials == <<
    CredentialSet("Valid User 1",
        <<"t","e","s","t","u","s","e","r","1","@","e","x","a","m","p","l","e",".","c","o","m">>,
        <<"V","a","l","i","d","P","a","s","s","1","2","3","!">>,
        TRUE, "valid"),
    CredentialSet("Valid User 2",
        <<"a","d","m","i","n","@","t","e","s","t","d","o","m","a","i","n",".","o","r","g">>,
        <<"A","d","m","i","n","P","a","s","s","4","5","6","@">>,
        TRUE, "valid"),
    CredentialSet("Invalid Email",
        <<"i","n","v","a","l","i","d","-","e","m","a","i","l","-","f","o","r","m","a","t">>,
        <<"V","a","l","i","d","P","a","s","s","1","2","3","!">>,
        FALSE, "invalid"),
    CredentialSet("Invalid Password",
        <<"t","e","s","t","@","e","x","a","m","p","l","e",".","c","o","m">>,
        <<"w","e","a","k">>,
        FALSE, "invalid"),
    CredentialSet("Empty Credentials",
        <<>>,
        <<>>,
        FALSE, "invalid"),
    CredentialSet("Special Characters",
        <<"t","e","s","t","+","s","p","e","c","i","a","l","@","e","x","a","m","p","l","e",".","c","o","m">>,
        <<"P","a","s","s","@","1","2","3","!","@","#","$","%">>,
        TRUE, "edge_case"),
    CredentialSet("Long Email",
        <<"v","e","r","y",".","l","o","n","g",".","e","m","a","i","l",".","a","d","d","r","e","s","s",".","f","o","r",".","t","e","s","t","i","n","g",".","p","u","r","p","o","s","e","s","@","v","e","r","y","l","o","n","g","d","o","m","a","i","n","n","a","m","e",".","c","o","m">>,
        <<"V","a","l","i","d","P","a","s","s","1","2","3","!">>,
        TRUE, "edge_case"),
    CredentialSet("Unicode Email",
        <<"U+6D4B","U+8BD5","@","e","x","a","m","p","l","e",".","c","o","m">>,
        <<"V","a","l","i","d","P","a","s","s","1","2","3","!">>,
        TRUE, "edge_case"),
    CredentialSet("SQL Injection Email",
        <<"a","d","m","i","n","'",";"," ","D","R","O","P"," ","T","A","B","L","E"," ","u","s","e","r","s",";"," ","-","-">>,
        <<"V","a","l","i","d","P","a","s","s","1","2","3","!">>,
        FALSE, "security_test"),
    CredentialSet("XSS Email",
        <<"<","s","c","r","i","p","t",">","a","l","e","r","t","(","'","X","S","S","'",")","<","/","s","c","r","i","p","t",">","@","e","x","a","m","p","l","e",".","c","o","m">>,
        <<"V","a","l","i","d","P","a","s","s","1","2","3","!">>,
        FALSE, "security_test"),
    CredentialSet("SQL Injection Password",
        <<"t","e","s","t","@","e","x","a","m","p","l","e",".","c","o","m">>,
        <<"'",";"," ","D","R","O","P"," ","T","A","B","L","E"," ","u","s","e","r","s",";"," ","-","-">>,
        FALSE, "security_test") >>

\* A slip: the password must be longer than 8 characters.
validate_credentials_longer(email, password) ==
    LET parts == split(email, "@") IN
    /\ Len(parts) > 1
    /\ \E i \in 1..Len(parts[Len(parts)]) : parts[Len(parts)][i] = "."
    /\ Len(password) > 8

\* _validate_credentials, credential_manager.py:200-208: "@" in email and
\* "." in email.split("@")[-1], and len(password) >= 8
validate_credentials(email, password) ==
    LET parts == split(email, "@")
        email_valid == /\ Len(parts) > 1
                       /\ \E i \in 1..Len(parts[Len(parts)]) : parts[Len(parts)][i] = "."
        password_valid == Len(password) >= 8
    IN email_valid /\ password_valid

\* The emails and passwords given to add_credential_set and found in
\* imported files
EmailUser == <<"u","s","e","r","@","e","x","a","m","p","l","e",".","c","o","m">>
EmailNotAnEmail == <<"n","o","t","-","a","n","-","e","m","a","i","l">>
EmailInputs == {EmailUser, EmailNotAnEmail, <<"a","@","b">>, <<"a",".","b","@","c">>, <<"a","@","b","@","c",".","d">>}
PasswordLong == <<"L","o","n","g","E","n","o","u","g","h","1">>
PasswordShort == <<"s","h","o","r","t">>
PasswordInputs == {PasswordLong, PasswordShort, <<"1","2","3","4","5","6","7","8">>}

\* add_credential_set, credential_manager.py:178-198
AddCredentialSet(email, password) ==
    /\ Len(credential_sets) < Len(default_credentials) + MaxAddedSets
    /\ credential_sets' = Append(credential_sets,
          CredentialSet("custom", email, password,
                        validate_credentials(email, password), "custom"))
    /\ UNCHANGED <<nonToolVars, nonCredVars>>

\* The entries of an imported file: each has an email and a password, and is
\* complete or lacks a key.
ImportEntries == [email : {EmailUser, EmailNotAnEmail}, password : {PasswordLong},
                  complete : BOOLEAN]
ImportFiles == UNION {[1..n -> ImportEntries] : n \in 0..MaxImported}

\* The sets import_credentials appends for the entries from the k-th on,
\* credential_manager.py:611-621: an incomplete entry raises and ends the
\* import, the sets appended before it stay.
RECURSIVE imported_from(_, _)
imported_from(data, k) ==
    IF k > Len(data) \/ ~data[k].complete
    THEN <<>>
    ELSE <<CredentialSet("imported", data[k].email, data[k].password,
                         validate_credentials(data[k].email, data[k].password), "custom")>>
         \o imported_from(data, k + 1)

\* import_credentials, credential_manager.py:603-629; with ~readable the
\* file cannot be read or decoded and nothing is appended.
ImportCredentials(data, readable) ==
    /\ Len(credential_sets) + Len(data) <= Len(default_credentials) + MaxAddedSets
    /\ credential_sets' = IF readable THEN credential_sets \o imported_from(data, 1)
                          ELSE credential_sets
    /\ UNCHANGED <<nonToolVars, nonCredVars>>

\* CredentialManager.__init__, credential_manager.py:51-58
InitCred == credential_sets = default_credentials

\* ------------------------------------------------------------------ IntelligentFormTester
\* Largest scenario list, number of execute_test_scenarios calls on one
\* tester and number of recorded evaluations.
MaxScenarios == 2
MaxFormCalls == 2
MaxEvaluations == 2

\* expected_result of the generated scenarios,
\* intelligent_form_testing.py:302-622
ExpectedResults == {"success", "validation_error", "required_error", "security_error",
                    "authentication_error"}
\* What _analyze_form_result returns, intelligent_form_testing.py:826-866
AnalyzedResults == {"success", "validation_error", "security_error", "unknown", "error"}
\* The observed results _evaluate_test_result can be given
ActualResults == AnalyzedResults \cup {"required_error", "authentication_error"}

\* _evaluate_test_result, intelligent_form_testing.py:921-932
evaluate_test_result(expected, actual) ==
    IF expected = "success" THEN actual = "success"
    ELSE IF expected = "validation_error" THEN actual \in {"validation_error", "required_error"}
    ELSE IF expected = "security_error" THEN actual = "security_error"
    ELSE IF expected = "authentication_error"
    THEN actual \in {"validation_error", "authentication_error"}
    ELSE FALSE

\* One call of _evaluate_test_result
EvaluateTestResult(expected, actual) ==
    /\ Len(evaluations) < MaxEvaluations
    /\ evaluations' = Append(evaluations,
          <<expected, actual, evaluate_test_result(expected, actual)>>)
    /\ UNCHANGED <<testing_stats, test_results, form_results, scenarios_left, form_calls,
                   form_recoveries, form_pending, form_pc>>
    /\ UNCHANGED <<nonToolVars, nonFormVars>>

\* TestResult, intelligent_form_testing.py:51-58
FormResult(success, actual, has_error) ==
    [success |-> success, actual_result |-> actual, error_message |-> has_error]

\* What one _execute_single_scenario does for a scenario with the expected
\* result `expected`, intelligent_form_testing.py:702-781: it analyses the page
\* and evaluates, or catches an exception and returns an "error" result, or
\* raises out of its own handler.
SingleOutcomes == [kind : {"analysed"}, expected : ExpectedResults, actual : AnalyzedResults]
                  \cup [kind : {"caught"}, expected : ExpectedResults, actual : {"error"}]
                  \cup [kind : {"raise"}, expected : {"success"}, actual : {"error"}]
Raises == [kind |-> "raise", expected |-> "success", actual |-> "error"]
execute_single_scenario(expected, o) ==
    IF o.kind = "analysed"
    THEN FormResult(evaluate_test_result(expected, o.actual), o.actual, FALSE)
    ELSE FormResult(FALSE, "error", TRUE)

Bump(stats, key) == [stats EXCEPT ![key] = @ + 1]

\* The exceptions a scenario raises: type(e).__name__ and str(e)
ScenarioErrorTypes == {<<"T","i","m","e","o","u","t","E","r","r","o","r">>,
                       <<"R","u","n","t","i","m","e","E","r","r","o","r">>}
MsgTimeoutAgain == <<"t","i","m","e","o","u","t"," ","a","g","a","i","n">>
ScenarioMessages == {MsgTimeoutAgain, MsgNotFound, MsgInputText, MsgCrashed}
ScenarioErrors == [error_type : ScenarioErrorTypes, msg : ScenarioMessages]
NoError == [error_type |-> <<>>, msg |-> <<>>]

\* action="execute_test_scenario", intelligent_form_testing.py:668
ExecuteTestScenario ==
    <<"e","x","e","c","u","t","e","_","t","e","s","t","_","s","c","e","n","a","r","i","o">>

\* The TestResult of a scenario given up, intelligent_form_testing.py:688-694
ErrorResult == FormResult(FALSE, "error", TRUE)

\* The tester as execute_test_scenarios is entered with n scenarios,
\* intelligent_form_testing.py:639-644; a call that raised has left the
\* tester ready for the next one.
execute_start(n) ==
    /\ form_pc \in {"idle", "done", "raised"}
    /\ form_calls < MaxFormCalls
    /\ form_calls' = form_calls + 1
    /\ form_results' = <<>>
    /\ testing_stats' = [testing_stats EXCEPT !.total_tests = n]
    /\ scenarios_left' = n
    /\ form_pc' = "running"
    /\ UNCHANGED <<test_results, form_recoveries, form_pending, evaluations>>

\* execute_test_scenarios is entered, intelligent_form_testing.py:639-644
ExecuteStart(n) ==
    /\ execute_start(n)
    /\ UNCHANGED <<nonToolVars, nonFormVars>>

\* The await of _execute_single_scenario ends, intelligent_form_testing.py:
\* 649-661: `first` is what the scenario did. A result is appended and counted;
\* an exception `e` takes the loop into its handler.
ExecuteScenario(first, e) ==
    /\ form_pc = "running"
    /\ scenarios_left > 0
    /\ scenarios_left' = scenarios_left - 1
    /\ IF first.kind /= "raise"
       THEN LET result == execute_single_scenario(first.expected, first) IN
            /\ form_results' = Append(form_results, result)
            /\ testing_stats' =
                  IF result.success THEN Bump(testing_stats, "passed_tests")
                  ELSE IF result.error_message THEN Bump(testing_stats, "error_tests")
                  ELSE Bump(testing_stats, "failed_tests")
            /\ UNCHANGED <<form_pending, form_pc>>
       ELSE /\ form_pending' = e
            /\ form_pc' = "handling"
            /\ UNCHANGED <<form_results, testing_stats>>
    /\ UNCHANGED <<test_results, form_calls, form_recoveries, evaluations>>
    /\ UNCHANGED <<nonToolVars, nonFormVars>>

\* The scenario is given up, intelligent_form_testing.py:688-695
GiveUp ==
    /\ form_results' = Append(form_results, ErrorResult)
    /\ testing_stats' = Bump(testing_stats, "error_tests")
    /\ form_pending' = NoError
    /\ form_pc' = "running"

\* handle_action_error raises out of the handler of the loop,
\* intelligent_form_testing.py:663-672: nothing stands around the await of
\* line 666, so the exception leaves execute_test_scenarios. No result is
\* appended for the scenario, no attempt is counted, test_results is not
\* assigned and the results of the call are lost.
HandlerRaises ==
    /\ form_pc' = "raised"
    /\ form_results' = <<>>
    /\ form_pending' = NoError
    /\ UNCHANGED <<form_recoveries, testing_stats>>

\* The await of handle_action_error ends, intelligent_form_testing.py:666.
\* When it returns (handler_ok), attempt_error_recovery is called (line 677)
\* with an element_info that has no index and no similar elements
\* (element_index=None, element_selector=None): the call is refused at the
\* cap of its key, or counts the attempt; it returns False at once, or
\* awaits in its strategy. When it raises, so does execute_test_scenarios.
HandleScenarioError(handler_ok) ==
    /\ form_pc = "handling"
    /\ IF handler_ok
       THEN LET r == attempt_error_recovery(form_recoveries, form_pending.error_type,
                                            ExecuteTestScenario, form_pending.msg, FALSE)
            IN /\ form_recoveries' = r.attempts
               /\ IF r.call.over
                  THEN GiveUp
                  ELSE /\ form_pc' = "recovering"
                       /\ UNCHANGED <<form_results, testing_stats, form_pending>>
       ELSE HandlerRaises
    /\ UNCHANGED <<test_results, scenarios_left, form_calls, evaluations>>
    /\ UNCHANGED <<nonToolVars, nonFormVars>>

\* What a strategy that awaited returns for an element_info without index and
\* without similar elements, advanced_error_handler.py:366-415:
\* _recover_timeout_error True once its sleep is over, False when the sleep
\* raised; _recover_element_not_found False.
recovery_success(strategy, slept) == strategy = "timeout_error" /\ slept

\* attempt_error_recovery returns, intelligent_form_testing.py:677-681: after a
\* recovery the scenario is run once more.
RecoveryOver(slept) ==
    /\ form_pc = "recovering"
    /\ IF recovery_success(recovery_strategy(form_pending.msg), slept)
       THEN /\ form_pc' = "retrying"
            /\ UNCHANGED <<form_results, testing_stats, form_pending>>
       ELSE GiveUp
    /\ UNCHANGED <<test_results, scenarios_left, form_calls, form_recoveries, evaluations>>
    /\ UNCHANGED <<nonToolVars, nonFormVars>>

\* The await of the retry ends, intelligent_form_testing.py:680-686: its
\* result is appended and counted as passed whatever it is; a retry that
\* raises gives the scenario up.
RetryScenario(second) ==
    /\ form_pc = "retrying"
    /\ IF second.kind /= "raise"
       THEN /\ form_results' = Append(form_results,
                                      execute_single_scenario(second.expected, second))
            /\ testing_stats' = Bump(testing_stats, "passed_tests")
            /\ form_pending' = NoError
            /\ form_pc' = "running"
       ELSE GiveUp
    /\ UNCHANGED <<test_results, scenarios_left, form_calls, form_recoveries, evaluations>>
    /\ UNCHANGED <<nonToolVars, nonFormVars>>

\* The loop is over, intelligent_form_testing.py:697-700
ExecuteFinish ==
    /\ form_pc = "running"
    /\ scenarios_left = 0
    /\ test_results' = form_results
    /\ form_pc' = "done"
    /\ UNCHANGED <<testing_stats, form_results, scenarios_left, form_calls, form_recoveries,
                   form_pending, evaluations>>
    /\ UNCHANGED <<nonToolVars, nonFormVars>>

\* IntelligentFormTester.__init__, intelligent_form_testing.py:63-75
InitForm ==
    /\ testing_stats = [total_tests |-> 0, passed_tests |-> 0, failed_tests |-> 0,
                        skipped_tests |-> 0, error_tests |-> 0]
    /\ test_results = <<>>
    /\ form_results = <<>>
    /\ scenarios_left = 0
    /\ form_calls = 0
    /\ form_recoveries = <<>>
    /\ form_pending = NoError
    /\ form_pc = "idle"
    /\ evaluations = <<>>

\* ---- the form tests of an audited page (site_audit.py:66-82)
\* The pages of the link graph with a form on them
PagesWithForm == {SeedUrl, Url("https", "site", "/a")}

\* `(await self.page.locator("form").count()) > 0`, site_audit.py:67
has_form(url) == url \in PagesWithForm

\* The page has a form, site_audit.py:67-73, and the tester the factory gives
\* for the page, here the same tester for every page, discovers the fields,
\* generates n scenarios and enters execute_test_scenarios.
AuditFormStart(n) ==
    /\ audit_pc = "page"
    /\ has_form(audit_page.url)
    /\ audit_pc' = "form"
    /\ execute_start(n)
    /\ UNCHANGED <<start_url, max_pages, max_depth, visited, queue, pages_summary,
                   audit_page>>
    /\ UNCHANGED <<apiVars, mainVars, reportVars, runVars, monitorVars,
                   fanVars, recoveryVars, probeVars, nonFormVars>>

\* A scenario that passes, and the TimeoutError a scenario raises
ScenarioPasses == [kind |-> "analysed", expected |-> "success", actual |-> "success"]
ScenarioTimeout ==
    [error_type |-> <<"T","i","m","e","o","u","t","E","r","r","o","r">>,
     msg |-> MsgTimeoutAgain]

\* The audit awaits execute_test_scenarios, site_audit.py:73: a step of the
\* tester, with scenarios that pass or raise a TimeoutError
AuditFormStep ==
    /\ audit_pc = "form"
    /\ \/ ExecuteScenario(ScenarioPasses, NoError)
       \/ ExecuteScenario(Raises, ScenarioTimeout)
       \/ \E handler_ok \in BOOLEAN : HandleScenarioError(handler_ok)
       \/ RecoveryOver(TRUE)
       \/ RetryScenario(ScenarioPasses)
       \/ ExecuteFinish

\* ------------------------------------------------------------------ ErrorMonitor events
\* Largest number of events in the page, of get_injected_errors calls and of
\* start_monitoring calls on one monitor.
MaxEvents == 2
MaxInjectedCalls == 2
MaxStarts == 2

\* The start_monitoring calls; the session a call gets has the call's number
StartIds == 1..MaxStarts
\* self.cdp_session = None, error_monitor.py:49
NoSession == 0

Handler(event, handler) == [event |-> event, handler |-> handler]

\* _setup_console_monitoring, error_monitor.py:93-107
console_handlers == <<Handler("Runtime.consoleAPICalled", "_handle_console_message"),
                      Handler("Runtime.exceptionThrown", "_handle_runtime_exception")>>
\* _setup_javascript_monitoring, error_monitor.py:109-123
javascript_handlers == <<Handler("Runtime.exceptionThrown", "_handle_javascript_exception")>>
\* _setup_network_monitoring, error_monitor.py:125-140
network_handlers == <<Handler("Network.responseReceived", "_handle_network_response"),
                      Handler("Network.loadingFailed", "_handle_network_failure"),
                      Handler("Network.requestWillBeSent", "_handle_network_request")>>
\* _setup_dom_monitoring, error_monitor.py:142-155
dom_handlers == <<Handler("DOM.documentUpdated", "_handle_dom_update")>>
\* _setup_performance_monitoring, error_monitor.py:157-170
performance_handlers == <<Handler("Performance.metrics", "_handle_performance_metrics")>>

ErrorInfo(error_type, source, severity) ==
    [error_type |-> error_type, source |-> source, severity |-> severity]

\* A session that delivers events: created and not yet detached
Live(s) == em_sessions[s] \in {"attached", "detaching"}

\* start_monitoring is called and runs to its first await, error_monitor.py:
\* 52-58: the flag is set. Nothing keeps a second call from being made.
StartMonitoring(c) ==
    /\ em_start_pc[c] = "idle"
    /\ \A d \in StartIds : d < c => em_start_pc[d] /= "idle"
    /\ em_start_pc' = [em_start_pc EXCEPT ![c] = "session"]
    /\ em_active' = TRUE
    /\ UNCHANGED <<em_session, em_sessions, em_handlers>>
    /\ UNCHANGED <<emListVars, exception_events, em_events, emPageVars>>
    /\ UNCHANGED <<nonToolVars, nonErrmonVars>>

\* The await of new_cdp_session ends, error_monitor.py:58: the session is
\* assigned to self.cdp_session, over the one that was there; an exception
\* ends the call in its handler, line 80.
NewSession(c, session_ok) ==
    /\ em_start_pc[c] = "session"
    /\ IF session_ok
       THEN /\ em_session' = c
            /\ em_sessions' = [em_sessions EXCEPT ![c] = "attached"]
            /\ em_start_pc' = [em_start_pc EXCEPT ![c] = "console"]
       ELSE /\ em_start_pc' = [em_start_pc EXCEPT ![c] = "over"]
            /\ UNCHANGED <<em_session, em_sessions>>
    /\ UNCHANGED <<em_active, em_handlers>>
    /\ UNCHANGED <<emListVars, exception_events, em_events, emPageVars>>
    /\ UNCHANGED <<nonToolVars, nonErrmonVars>>

\* self.cdp_session.on(...) after the enabling commands of a setup,
\* error_monitor.py:98-105, 114-120, 130-136, 147-151 and 162-166: a command
\* that raises, as every command to a detached session does, leaves nothing
\* registered.
register(hs, send_ok) ==
    IF send_ok /\ Live(em_session)
    THEN [em_handlers EXCEPT ![em_session] = @ \o hs]
    ELSE em_handlers

\* One setup of a call, on the session self.cdp_session is at that moment;
\* then the call goes on to the next setup.
setup(c, hs, send_ok, next) ==
    /\ em_handlers' = register(hs, send_ok)
    /\ em_start_pc' = [em_start_pc EXCEPT ![c] = next]
    /\ UNCHANGED <<em_active, em_session, em_sessions>>
    /\ UNCHANGED <<emListVars, exception_events, em_events, emPageVars>>
    /\ UNCHANGED <<nonToolVars, nonErrmonVars>>

\* _setup_console_monitoring of a call, error_monitor.py:93-107
SetupConsole(c, send_ok) ==
    /\ em_start_pc[c] = "console"
    /\ setup(c, console_handlers, send_ok, "javascript")

\* _setup_javascript_monitoring of a call, error_monitor.py:109-123
SetupJavascript(c, send_ok) ==
    /\ em_start_pc[c] = "javascript"
    /\ setup(c, javascript_handlers, send_ok, "network")

\* _setup_network_monitoring of a call, error_monitor.py:125-140
SetupNetwork(c, send_ok) ==
    /\ em_start_pc[c] = "network"
    /\ setup(c, network_handlers, send_ok, "dom")

\* _setup_dom_monitoring of a call, error_monitor.py:142-155
SetupDom(c, send_ok) ==
    /\ em_start_pc[c] = "dom"
    /\ setup(c, dom_handlers, send_ok, "performance")

\* _setup_performance_monitoring of a call, error_monitor.py:157-170
SetupPerformance(c, send_ok) ==
    /\ em_start_pc[c] = "performance"
    /\ setup(c, performance_handlers, send_ok, "inject")

\* _inject_error_detection_script of a call, error_monitor.py:172-376, after
\* the other setups: add_init_script adds the script to those of the page, and
\* it runs, once for each time it was added, in the documents loaded from
\* then on.
InjectScript(c, inject_ok) ==
    /\ em_start_pc[c] = "inject"
    /\ script_registered' = IF inject_ok THEN script_registered + 1 ELSE script_registered
    /\ em_start_pc' = [em_start_pc EXCEPT ![c] = "over"]
    /\ UNCHANGED <<em_active, em_session, em_sessions, em_handlers>>
    /\ UNCHANGED <<emListVars, exception_events, em_events>>
    /\ UNCHANGED <<parses_z, script_present, page_buffer, injected_returns>>
    /\ UNCHANGED <<nonToolVars, nonErrmonVars>>

\* stop_monitoring up to its await, error_monitor.py:83-87: the flag is
\* cleared and the detaching of the session self.cdp_session is at that
\* moment begins; cdp_session keeps its value.
StopMonitoring ==
    /\ em_active' = FALSE
    /\ em_sessions' = IF em_session /= NoSession /\ em_sessions[em_session] = "attached"
                      THEN [em_sessions EXCEPT ![em_session] = "detaching"]
                      ELSE em_sessions
    /\ UNCHANGED <<em_session, em_handlers, em_start_pc>>
    /\ UNCHANGED <<emListVars, exception_events, em_events, emPageVars>>
    /\ UNCHANGED <<nonToolVars, nonErrmonVars>>

\* The await of cdp_session.detach() ends, error_monitor.py:87
DetachOver(s) ==
    /\ em_sessions[s] = "detaching"
    /\ em_sessions' = [em_sessions EXCEPT ![s] = "detached"]
    /\ UNCHANGED <<em_active, em_session, em_handlers, em_start_pc>>
    /\ UNCHANGED <<emListVars, exception_events, em_events, emPageVars>>
    /\ UNCHANGED <<nonToolVars, nonErrmonVars>>

\* The handlers a live session calls for an event
HandlersFor(s, event) ==
    IF Live(s) THEN SelectSeq(em_handlers[s], LAMBDA h : h.event = event) ELSE <<>>

\* The handlers called for an event of the page, session after session
RECURSIVE AllHandlersFor(_, _)
AllHandlersFor(event, s) ==
    IF s > MaxStarts THEN <<>>
    ELSE HandlersFor(s, event) \o AllHandlersFor(event, s + 1)

\* The records the handlers of `event` append, in the order of registration,
\* error_monitor.py:399-437. No handler looks at monitoring_active.
RECURSIVE exception_records(_, _)
exception_records(handlers, k) ==
    IF k > Len(handlers) THEN <<>>
    ELSE (IF handlers[k].handler = "_handle_runtime_exception"
          THEN <<ErrorInfo("runtime_exception", "javascript", "high")>>
          ELSE IF handlers[k].handler = "_handle_javascript_exception"
          THEN <<ErrorInfo("javascript_exception", "javascript", "high")>>
          ELSE <<>>)
         \o exception_records(handlers, k + 1)

\* An event is delivered: the count of events, and what stays as it is
delivered ==
    /\ em_events < MaxEvents
    /\ em_events' = em_events + 1
    /\ UNCHANGED <<emSessionVars, emPageVars>>
    /\ UNCHANGED <<nonToolVars, nonErrmonVars>>

\* The page throws: every live session with a handler for it delivers a
\* Runtime.exceptionThrown event
ExceptionThrown ==
    /\ AllHandlersFor("Runtime.exceptionThrown", 1) /= <<>>
    /\ delivered
    /\ exception_events' = exception_events + 1
    /\ LET recorded == exception_records(AllHandlersFor("Runtime.exceptionThrown", 1), 1) IN
       /\ em_js_errors' = em_js_errors \o recorded
       /\ em_errors' = em_errors \o recorded
    /\ UNCHANGED <<em_console_errors, em_network_errors, em_performance_issues>>

\* _handle_console_message, error_monitor.py:379-397: an error or a warning
\* is recorded; when the event's list of arguments is empty, `[0]` raises
\* IndexError, which is caught, and nothing is recorded.
console_record(type, has_args) ==
    IF type \in {"error", "warning"} /\ has_args
    THEN <<ErrorInfo(type, "console", IF type = "warning" THEN "medium" ELSE "high")>>
    ELSE <<>>

\* What n handlers of an event record when each records `records`
RECURSIVE by_each(_, _)
by_each(records, n) ==
    IF n = 0 THEN <<>> ELSE records \o by_each(records, n - 1)

\* The page writes to its console: every live session with a handler for it
\* delivers a Runtime.consoleAPICalled event
ConsoleTypes == {"error", "warning", "log"}
ConsoleMessage(type, has_args) ==
    /\ AllHandlersFor("Runtime.consoleAPICalled", 1) /= <<>>
    /\ delivered
    /\ LET recorded == by_each(console_record(type, has_args),
                               Len(AllHandlersFor("Runtime.consoleAPICalled", 1)))
       IN /\ em_console_errors' = em_console_errors \o recorded
          /\ em_errors' = em_errors \o recorded
    /\ UNCHANGED <<em_js_errors, em_network_errors, em_performance_issues, exception_events>>

\* _handle_network_response, error_monitor.py:439-460: a status of 400 or
\* more is recorded
network_response_record(status) ==
    IF status >= 400
    THEN <<ErrorInfo("network_error", "network", IF status >= 500 THEN "high" ELSE "medium")>>
    ELSE <<>>

\* The statuses of the responses the page receives
ResponseStatuses == {200, 404, 500}

\* A response arrives: every live session with a handler for it delivers a
\* Network.responseReceived event
NetworkResponse(status) ==
    /\ AllHandlersFor("Network.responseReceived", 1) /= <<>>
    /\ delivered
    /\ LET recorded == by_each(network_response_record(status),
                               Len(AllHandlersFor("Network.responseReceived", 1)))
       IN /\ em_network_errors' = em_network_errors \o recorded
          /\ em_errors' = em_errors \o recorded
    /\ UNCHANGED <<em_js_errors, em_console_errors, em_performance_issues, exception_events>>

\* _handle_network_failure, error_monitor.py:462-479: a request of the page
\* fails and every live session with a handler for it delivers a
\* Network.loadingFailed event
NetworkFailure ==
    /\ AllHandlersFor("Network.loadingFailed", 1) /= <<>>
    /\ delivered
    /\ LET recorded == by_each(<<ErrorInfo("network_failure", "network", "high")>>,
                               Len(AllHandlersFor("Network.loadingFailed", 1)))
       IN /\ em_network_errors' = em_network_errors \o recorded
          /\ em_errors' = em_errors \o recorded
    /\ UNCHANGED <<em_js_errors, em_console_errors, em_performance_issues, exception_events>>

\* _handle_network_request and _handle_dom_update, error_monitor.py:481-496:
\* the handlers of Network.requestWillBeSent and DOM.documentUpdated log and
\* record nothing
LoggedEvents == {"Network.requestWillBeSent", "DOM.documentUpdated"}
LoggedOnly(event) ==
    /\ AllHandlersFor(event, 1) /= <<>>
    /\ delivered
    /\ UNCHANGED <<emListVars, exception_events>>

\* _handle_performance_metrics, error_monitor.py:498-518: one record for each
\* TaskDuration metric of the event above 1000
performance_records(slow) ==
    [k \in 1..slow |-> ErrorInfo("performance_issue", "performance", "medium")]

\* How many metrics of one event are TaskDuration metrics above 1000
SlowTasks == {0, 1, 2}

\* Every live session with a handler for it delivers a Performance.metrics
\* event
PerformanceMetrics(slow) ==
    /\ AllHandlersFor("Performance.metrics", 1) /= <<>>
    /\ delivered
    /\ LET recorded == by_each(performance_records(slow),
                               Len(AllHandlersFor("Performance.metrics", 1)))
       IN /\ em_performance_issues' = em_performance_issues \o recorded
          /\ em_errors' = em_errors \o recorded
    /\ UNCHANGED <<em_js_errors, em_console_errors, em_network_errors, exception_events>>

\* The types the injected script reports, and one it does not know, reported
\* by a call of window.fagunErrorMonitor.reportError from the page
InjectedTypes == {"javascript_error", "console_warning", "resource_error", "custom"}

\* The timestamp of an entry: the script writes new Date().toISOString(),
\* which ends in "Z"; a call of reportError from the page writes what it
\* likes, an ISO timestamp without a suffix or something that is none.
Timestamps(type) == IF type = "custom" THEN {"iso", "bad"} ELSE {"iso_z"}

\* How many entries one error of the page leaves, error_monitor.py:175-331:
\* each run of the script wraps the handlers and listeners the run before it
\* installed, and all of them report to the window.fagunErrorMonitor of the
\* last run; a direct call of reportError pushes one entry.
reports_of(type, runs) == IF type = "custom" THEN 1 ELSE runs

\* reportError of the injected script, error_monitor.py:355-360: the entries
\* are pushed to the buffer of the document
PageError(type, timestamp) ==
    /\ script_present > 0
    /\ em_events < MaxEvents
    /\ em_events' = em_events + 1
    /\ page_buffer' = page_buffer \o
          [k \in 1..reports_of(type, script_present) |->
              [id |-> em_events + 1, copy |-> k, type |-> type, timestamp |-> timestamp]]
    /\ UNCHANGED <<emSessionVars, emListVars, exception_events>>
    /\ UNCHANGED <<parses_z, script_registered, script_present, injected_returns>>
    /\ UNCHANGED <<nonToolVars, nonErrmonVars>>

\* The page loads a new document: the init scripts run in it
Navigate ==
    /\ script_present' = script_registered
    /\ page_buffer' = <<>>
    /\ (script_present /= script_registered \/ page_buffer /= <<>>)
    /\ UNCHANGED <<emSessionVars, emListVars, exception_events, em_events>>
    /\ UNCHANGED <<parses_z, script_registered, injected_returns>>
    /\ UNCHANGED <<nonToolVars, nonErrmonVars>>

\* _determine_severity, error_monitor.py:552-567
determine_severity(error_type) ==
    IF error_type \in {"javascript_error", "unhandled_promise_rejection", "network_error",
                       "network_failure"} THEN "high"
    ELSE IF error_type \in {"console_warning", "performance_issue"} THEN "low"
    ELSE "medium"

\* getErrors of the injected script, error_monitor.py:362-364
getErrors(buffer) == buffer

\* datetime.fromisoformat(error.get('timestamp', ...)), error_monitor.py:537:
\* a "Z" suffix is accepted from Python 3.11 on and raises ValueError before
\* (the installer asks for Python 3.8 or higher, install.py:26-28)
fromisoformat_raises(timestamp, z_ok) ==
    timestamp = "bad" \/ (timestamp = "iso_z" /\ ~z_ok)

\* get_injected_errors, error_monitor.py:520-550; with ~evaluate_ok
\* page.evaluate raises and the call returns []. One entry whose timestamp
\* cannot be converted raises inside the loop, and the handler returns [] for
\* the whole call.
get_injected_errors(buffer, present, evaluate_ok, z_ok) ==
    IF ~evaluate_ok \/ present = 0 THEN <<>>
    ELSE LET errors == getErrors(buffer) IN
         IF \E k \in 1..Len(errors) : fromisoformat_raises(errors[k].timestamp, z_ok)
         THEN <<>>
         ELSE [k \in 1..Len(errors) |->
                 [id |-> errors[k].id, copy |-> errors[k].copy,
                  error_type |-> errors[k].type, source |-> "injected_script",
                  severity |-> determine_severity(errors[k].type)]]

GetInjectedErrors(evaluate_ok) ==
    /\ Len(injected_returns) < MaxInjectedCalls
    /\ injected_returns' = Append(injected_returns,
          get_injected_errors(page_buffer, script_present, evaluate_ok, parses_z))
    /\ UNCHANGED <<emSessionVars, emListVars, exception_events, em_events>>
    /\ UNCHANGED <<parses_z, script_registered, script_present, page_buffer>>
    /\ UNCHANGED <<nonToolVars, nonErrmonVars>>

\* clear_errors, error_monitor.py:604-611: the lists are emptied; the events
\* are counted anew from there
ClearAllErrors ==
    /\ em_errors /= <<>>
    /\ em_errors' = <<>>
    /\ em_js_errors' = <<>>
    /\ em_console_errors' = <<>>
    /\ em_network_errors' = <<>>
    /\ em_performance_issues' = <<>>
    /\ exception_events' = 0
    /\ UNCHANGED <<emSessionVars, em_events, emPageVars>>
    /\ UNCHANGED <<nonToolVars, nonErrmonVars>>

\* ErrorMonitor.__init__, error_monitor.py:42-50, on a page without the
\* script, under an interpreter that does (z_ok) or does not accept the "Z"
\* suffix
InitMonitor(z_ok) ==
    /\ em_active = FALSE
    /\ em_session = NoSession
    /\ em_sessions = [s \in StartIds |-> "none"]
    /\ em_handlers = [s \in StartIds |-> <<>>]
    /\ em_start_pc = [c \in StartIds |-> "idle"]
    /\ em_errors = <<>>
    /\ em_js_errors = <<>>
    /\ em_console_errors = <<>>
    /\ em_network_errors = <<>>
    /\ em_performance_issues = <<>>
    /\ exception_events = 0
    /\ em_events = 0
    /\ parses_z \in z_ok
    /\ script_registered = 0
    /\ script_present = 0
    /\ page_buffer = <<>>
    /\ injected_returns = <<>>

InitErrmon == InitMonitor({TRUE})

\* ------------------------------------------------------------------ ScreenshotCapture
\* Largest number of capture calls on one instance.
MaxCaptures == 3

\* The methods, and the awaits at which a call can fail: taking the
\* screenshot, waiting for the element, reading the title.
CaptureMethods == {"page", "element", "error"}
FailurePoints(method) ==
    {"none", "screenshot", "title"} \cup (IF method = "element" THEN {"wait"} ELSE {})

\* What an await raises: an Exception, or a BaseException that is none
\* (asyncio.CancelledError thrown into the coroutine).
FailureKinds == {"exception", "cancelled"}

\* The first use of the page in the try block, screenshot_capture.py:55, 114,
\* 172: with page None it raises AttributeError.
first_use(method) == IF method = "element" THEN "wait" ELSE "screenshot"

\* The statement of the try block that raises, if any. In
\* capture_error_screenshot the description slices error_message (line 177)
\* after the screenshot and before the title: a message that cannot be sliced
\* (None) raises TypeError there.
raising_point(method, has_page, message_ok, fail_at) ==
    IF ~has_page THEN first_use(method)
    ELSE IF fail_at \in {"screenshot", "wait"} THEN fail_at
    ELSE IF method = "error" /\ ~message_ok THEN "description"
    ELSE fail_at

\* What is raised there: only an await can raise something else than an
\* Exception.
raised_kind(has_page, point, fail_at, kind) ==
    IF has_page /\ point = fail_at THEN kind ELSE "exception"

\* The metadata a call builds, screenshot_capture.py:63-71, 80-89 (page),
\* 119-128, 137-147 (element), 174-183, 192-202 (error): with a failure the
\* record has no file and has the error; its url is "Unknown" without a page.
metadata(method, full_page, has_page, point) ==
    [type |-> method,
     full_page |-> (IF method = "page" THEN full_page ELSE TRUE),
     filename |-> IF point = "none" THEN "png" ELSE "None",
     url |-> IF has_page THEN "url" ELSE "Unknown",
     title |-> IF point = "none" THEN "title" ELSE "Error",
     error |-> point]

\* self.screenshots.append(screenshot_data) is reached,
\* screenshot_capture.py:73, 130, 185: only at the end of the try block
appended(record) == record.error = "none"

NoRecord == [type |-> "None", full_page |-> TRUE, filename |-> "None",
             url |-> "None", title |-> "None", error |-> "none"]

NoCapture == [returned |-> FALSE, raised |-> "None", record |-> NoRecord]

\* One call of a capture method: what it returns or raises, and whether the
\* record goes into the list. `except Exception` (lines 78, 135, 190) lets a
\* CancelledError through; the handler of capture_error_screenshot slices
\* error_message again (line 195) and raises the TypeError of a message that
\* cannot be sliced.
capture(method, full_page, has_page, message_ok, fail_at, kind) ==
    LET point == raising_point(method, has_page, message_ok, fail_at)
        record == metadata(method, full_page, has_page, point)
    IN  IF point = "none"
        THEN [returned |-> TRUE, raised |-> "None", record |-> record]
        ELSE IF raised_kind(has_page, point, fail_at, kind) = "cancelled"
        THEN [returned |-> FALSE, raised |-> "CancelledError", record |-> NoRecord]
        ELSE IF method = "error" /\ ~message_ok
        THEN [returned |-> FALSE, raised |-> "TypeError", record |-> NoRecord]
        ELSE [returned |-> TRUE, raised |-> "None", record |-> record]

\* capture_screenshot, capture_element_screenshot and
\* capture_error_screenshot, screenshot_capture.py:31-202
Capture(method, full_page, has_page, message_ok, fail_at, kind) ==
    /\ capture_calls < MaxCaptures
    /\ capture_calls' = capture_calls + 1
    /\ LET call == capture(method, full_page, has_page, message_ok, fail_at, kind) IN
       /\ captured' = IF call.returned /\ appended(call.record)
                      THEN Append(captured, call.record)
                      ELSE captured
       /\ last_capture' = call
    /\ UNCHANGED <<nonToolVars, nonShotVars>>

\* clear_screenshots, screenshot_capture.py:208-210
ClearScreenshots ==
    /\ captured /= <<>>
    /\ captured' = <<>>
    /\ UNCHANGED <<capture_calls, last_capture>>
    /\ UNCHANGED <<nonToolVars, nonShotVars>>

\* get_screenshot_summary, screenshot_capture.py:212-225: the records of the
\* list, and those of them with a file
get_screenshot_summary ==
    [total_screenshots |-> Len(captured),
     successful_screenshots |-> Len(SelectSeq(captured, LAMBDA r : r.filename /= "None")),
     error_screenshots |-> Len(SelectSeq(captured, LAMBDA r : r.type = "error")),
     element_screenshots |-> Len(SelectSeq(captured, LAMBDA r : r.type = "element"))]

\* ScreenshotCapture.__init__, screenshot_capture.py:26-29
InitShot ==
    /\ captured = <<>>
    /\ capture_calls = 0
    /\ last_capture = NoCapture

\* ------------------------------------------------------------------ specifications
InitRunIdle ==
    /\ InitRun({})
    /\ validate_output = FALSE
    /\ generate_gif = FALSE

\* None of the utilities is in use
InitToolsBut(g) ==
    /\ IF g = "Cred" THEN TRUE ELSE InitCred
    /\ IF g = "Form" THEN TRUE ELSE InitForm
    /\ IF g = "Errmon" THEN TRUE ELSE InitErrmon
    /\ IF g = "Shot" THEN TRUE ELSE InitShot
    /\ IF g = "Bugs" THEN TRUE ELSE InitBugs
InitToolIdle == InitToolsBut("none")
InitUtilIdle == InitFanIdle /\ InitRecovery /\ InitCrawlIdle /\ InitProbeIdle /\ InitToolIdle
InitExtIdle == InitUtilIdle

InitSpecAPI == InitAPI /\ InitMainIdle /\ InitReport /\ InitRunIdle /\ InitExtIdle

NextAPI ==
    \/ \E msg \in Messages : HandleQuotaError(msg)
    \/ \E target \in Providers : SwitchTo(target)
    \/ \E left \in Providers : GetCurrentLLM(left)

SpecAPI == InitSpecAPI /\ [][NextAPI]_vars

InitSpecMain == InitAPI /\ InitMainIdle /\ InitReport /\ InitRunIdle /\ InitExtIdle

NextMain ==
    \/ \E has_prompt \in BOOLEAN, has_plan \in BOOLEAN, write_ok \in BOOLEAN,
          left \in Providers :
          MainStart(has_prompt, has_plan, write_ok, left)
    \/ \E outcome \in RunOutcomes, write_ok \in BOOLEAN, left \in Providers :
          MainAttempt(outcome, write_ok, left)
    \/ \E ar \in AgentResults, fin \in FinishInputs : MainFinish(ar, fin[1], fin[2])

SpecMain == InitSpecMain /\ [][NextMain]_vars

\* APIManager.__init__ in an environment with both keys, as the report
\* generator does not read it.
InitAPIFixed ==
    /\ gemini_key = "key"
    /\ grok_key = "key"
    /\ current_provider = "gemini"
    /\ quota_exceeded = FALSE
    /\ constructible = [p \in Providers |-> TRUE]
    /\ calls = <<>>

InitSpecReport == InitAPIFixed /\ InitMainIdle /\ InitReport /\ InitRunIdle /\ InitExtIdle

NextReport ==
    \/ \E category \in CategoryInputs : AddFinding(category)
    \/ \E status \in StepStatuses : AddTestStep(status)

SpecReport == InitSpecReport /\ [][NextReport]_vars

\* One agent run, with every setting and every fault of the finally block.
InitSpecRun ==
    /\ InitAPIFixed /\ InitMainIdle /\ InitReport
    /\ InitRun({"a1"})
    /\ validate_output \in BOOLEAN
    /\ generate_gif \in BOOLEAN
    /\ InitExtIdle

NextRun == AgentStep("a1", Faults) \/ Interrupts("a1")

SpecRun == InitSpecRun /\ [][NextRun]_vars

\* The steps of a run that has no page to monitor, whose steps succeed or
\* fail without finishing the task, whose steps, hooks and finally block
\* raise nothing and whose history list yields its entries
LoopStep(a) ==
    \/ StartRun(a, FALSE)
    \/ InitialActions(a, "none")
    \/ LoopTop(a)
    \/ CheckFlags(a)
    \/ PauseWait(a)
    \/ \E outcome \in {"ok", "error"} : Step(a, outcome)
    \/ AfterStep(a, TRUE, "none")
    \/ Cleanup(a, NoFaults, FALSE)

\* Two agent runs in one process, interleaved; the interrupts reach the first
\* agent.
InitSpecRuns ==
    /\ InitAPIFixed /\ InitMainIdle /\ InitReport
    /\ InitRun(Agents)
    /\ validate_output = FALSE
    /\ generate_gif = FALSE
    /\ InitExtIdle

NextRuns ==
    \/ \E a \in Agents : LoopStep(a)
    \/ Interrupts("a1")

SpecRuns == InitSpecRuns /\ [][NextRuns]_vars

\* The event loop runs every task that can run: a run's own next step is
\* eventually taken. Nothing is assumed of the interrupts.
FairSpecRuns == SpecRuns /\ \A a \in Agents : WF_vars(LoopStep(a))

\* A fan-out of either entry point of Vibetest.py, of up to MaxFanAgents agents
InitSpecFan ==
    /\ InitAPIFixed /\ InitMainIdle /\ InitReport /\ InitRunIdle
    /\ InitFan(FanModes, 0..MaxFanAgents)
    /\ InitRecovery /\ InitCrawlIdle /\ InitProbeIdle /\ InitToolIdle

NextFan ==
    \/ \E i \in 1..MaxFanAgents, built \in BOOLEAN : TaskStart(i, built)
    \/ \E i \in 1..MaxFanAgents, run_result \in RunResults, report_ok \in BOOLEAN :
          TaskFinish(i, run_result, report_ok)
    \/ \E combined_ok \in BOOLEAN : Gather(combined_ok)

SpecFan == InitSpecFan /\ [][NextFan]_vars


\* Two agent runs in one process with the events of their pages
InitSpecShared ==
    /\ InitAPIFixed /\ InitMainIdle /\ InitReport
    /\ InitRun(Agents)
    /\ validate_output = FALSE
    /\ generate_gif = FALSE
    /\ InitExtIdle

\* The steps of a run that is neither paused nor stopped and meets no fault,
\* whose one step finishes the task and whose tests find no bug
UndisturbedStep(a) ==
    \/ \E has_page \in BOOLEAN : StartRun(a, has_page)
    \/ NewCdpSession(a, TRUE)
    \/ RegisterConsoleHandlers(a, TRUE)
    \/ RegisterJavascriptHandlers(a, TRUE)
    \/ RegisterNetworkHandlers(a, TRUE)
    \/ RegisterPerformanceHandlers(a, TRUE)
    \/ InitialActions(a, "none")
    \/ LoopTop(a)
    \/ CheckFlags(a)
    \/ Step(a, "done")
    \/ AfterStep(a, TRUE, "none")
    \/ \E yields_fields \in BOOLEAN : Cleanup(a, NoFaults, yields_fields)
    \/ TestingEngineStart(a)
    \/ TestingEngineReturns(a)
    \/ \E injected \in 0..MaxCaptured : AdvancedTesting(a, injected)
    \/ RenderReport(a, NoFaults)
    \/ DetachSession(a)

\* A capture made while the run has a page to capture: its own page while it
\* is open, or the new page of its tests
CaptureInRun(a) ==
    /\ PageOpen(a) \/ run_pc[a] = "testing"
    /\ ScreenshotTaken(a)

NextShared ==
    \/ \E a \in Agents : UndisturbedStep(a)
    \/ \E a \in Agents, kind \in EventKinds : MonitorEvent(a, kind)
    \/ \E a \in Agents : CaptureInRun(a)
    \/ ClearErrors
    \/ ClearAllScreenshots

SpecShared == InitSpecShared /\ [][NextShared]_vars

\* The calls made to one AdvancedErrorHandler
InitSpecRecovery ==
    /\ InitAPIFixed /\ InitMainIdle /\ InitReport /\ InitRunIdle
    /\ InitFanIdle
    /\ InitRecovery /\ InitCrawlIdle /\ InitProbeIdle /\ InitToolIdle

NextRecovery ==
    \/ \E error_type \in ErrorTypes, action \in ActionInputs, msg \in RecoveryMessages :
          \E has_index \in IndexInputs(msg) :
             AttemptErrorRecovery(error_type, action, msg, has_index)
    \/ \E key \in DOMAIN recovery_pending, recovered \in BOOLEAN :
           RecoveryReturns(key, recovered)

SpecRecovery == InitSpecRecovery /\ [][NextRecovery]_vars

\* One audit, with every page budget and depth budget
InitSpecCrawl ==
    /\ InitAPIFixed /\ InitMainIdle /\ InitReport /\ InitRunIdle
    /\ InitFanIdle /\ InitRecovery /\ InitProbeIdle /\ InitToolIdle
    /\ InitCrawl

NextCrawl ==
    \/ AuditVisit
    \/ AuditFormStart(1)
    \/ AuditFormStep
    \/ \E links \in LinkLists : AuditSummary(links, TRUE)
    \/ AuditSummary(<<>>, FALSE)
    \/ AuditSkip
    \/ AuditReturn

SpecCrawl == InitSpecCrawl /\ [][NextCrawl]_vars

\* The coroutine is run on: an iteration that can be made is made.
FairSpecCrawl == SpecCrawl /\ WF_vars(NextCrawl)

\* One check of a page's links
InitSpecProbe ==
    /\ InitAPIFixed /\ InitMainIdle /\ InitReport /\ InitRunIdle
    /\ InitFanIdle /\ InitRecovery /\ InitCrawlIdle /\ InitToolIdle
    /\ InitProbe(0..MaxProbes)

NextProbe ==
    \/ \E href \in Hrefs, chain \in Chains, text \in LinkTexts, text_ok \in BOOLEAN :
          CheckLink(href, chain, text, text_ok)
    \/ CheckAborted
    \/ CheckReturn

SpecProbe == InitSpecProbe /\ [][NextProbe]_vars

\* The base of the specifications of the tools
InitToolBase ==
    /\ InitAPIFixed /\ InitMainIdle /\ InitReport /\ InitRunIdle
    /\ InitFanIdle /\ InitRecovery /\ InitCrawlIdle /\ InitProbeIdle

\* The catalog of one CredentialManager
InitSpecCred == InitToolBase /\ InitToolIdle

NextCred ==
    \/ \E email \in EmailInputs, password \in PasswordInputs : AddCredentialSet(email, password)
    \/ \E data \in ImportFiles, readable \in BOOLEAN : ImportCredentials(data, readable)

SpecCred == InitSpecCred /\ [][NextCred]_vars

\* Evaluations of scenarios' results
InitSpecEvaluate == InitToolBase /\ InitToolIdle

NextEvaluate ==
    \E expected \in ExpectedResults, actual \in ActualResults :
        EvaluateTestResult(expected, actual)

SpecEvaluate == InitSpecEvaluate /\ [][NextEvaluate]_vars

\* One form tester executing scenario lists
InitSpecForm == InitToolBase /\ InitToolIdle

NextForm ==
    \/ \E n \in 0..MaxScenarios : ExecuteStart(n)
    \/ \E first \in SingleOutcomes \ {Raises} : ExecuteScenario(first, NoError)
    \/ \E e \in ScenarioErrors : ExecuteScenario(Raises, e)
    \/ \E handler_ok \in BOOLEAN : HandleScenarioError(handler_ok)
    \/ \E slept \in BOOLEAN : RecoveryOver(slept)
    \/ \E second \in SingleOutcomes : RetryScenario(second)
    \/ ExecuteFinish

SpecForm == InitSpecForm /\ [][NextForm]_vars

\* One ErrorMonitor on one page: its sessions and what they deliver
InitSpecErrmon == InitToolBase /\ InitToolIdle

\* A call of start_monitoring made when the calls before it are over
StartNext(c) ==
    /\ \A d \in StartIds : d < c => em_start_pc[d] = "over"
    /\ StartMonitoring(c)

NextErrmon ==
    \/ \E c \in StartIds : StartNext(c)
    \/ \E c \in StartIds, session_ok \in BOOLEAN : NewSession(c, session_ok)
    \/ \E c \in StartIds, send_ok \in BOOLEAN : SetupConsole(c, send_ok)
    \/ \E c \in StartIds, send_ok \in BOOLEAN : SetupJavascript(c, send_ok)
    \/ \E c \in StartIds : SetupNetwork(c, TRUE)
    \/ \E c \in StartIds : SetupDom(c, TRUE)
    \/ \E c \in StartIds : SetupPerformance(c, TRUE)
    \/ \E c \in StartIds : InjectScript(c, TRUE)
    \/ StopMonitoring
    \/ \E s \in StartIds : DetachOver(s)
    \/ ClearAllErrors
    \/ ExceptionThrown
    \/ \E type \in ConsoleTypes, has_args \in BOOLEAN : ConsoleMessage(type, has_args)
    \/ \E event \in LoggedEvents : LoggedOnly(event)
    \/ \E status \in ResponseStatuses : NetworkResponse(status)
    \/ NetworkFailure
    \/ \E slow \in SlowTasks : PerformanceMetrics(slow)

SpecErrmon == InitSpecErrmon /\ [][NextErrmon]_vars

\* One ErrorMonitor on one page: the script it adds to the page and what the
\* script collects
InitSpecInjected == InitToolBase /\ InitToolsBut("Errmon") /\ InitMonitor(BOOLEAN)

NextInjected ==
    \/ \E c \in StartIds : StartNext(c)
    \/ \E c \in StartIds, session_ok \in BOOLEAN : NewSession(c, session_ok)
    \/ \E c \in StartIds : SetupConsole(c, TRUE)
    \/ \E c \in StartIds : SetupJavascript(c, TRUE)
    \/ \E c \in StartIds : SetupNetwork(c, TRUE)
    \/ \E c \in StartIds : SetupDom(c, TRUE)
    \/ \E c \in StartIds : SetupPerformance(c, TRUE)
    \/ \E c \in StartIds, inject_ok \in BOOLEAN : InjectScript(c, inject_ok)
    \/ \E type \in InjectedTypes : \E timestamp \in Timestamps(type) :
          PageError(type, timestamp)
    \/ Navigate
    \/ \E evaluate_ok \in BOOLEAN : GetInjectedErrors(evaluate_ok)
    \/ \E event \in LoggedEvents : LoggedOnly(event)
    \/ \E status \in ResponseStatuses : NetworkResponse(status)
    \/ NetworkFailure
    \/ \E slow \in SlowTasks : PerformanceMetrics(slow)

SpecInjected == InitSpecInjected /\ [][NextInjected]_vars

\* One ScreenshotCapture
InitSpecShot == InitToolBase /\ InitToolIdle

NextShot ==
    \/ \E method \in CaptureMethods, full_page, has_page, message_ok \in BOOLEAN :
          \E fail_at \in FailurePoints(method), kind \in FailureKinds :
             Capture(method, full_page, has_page, message_ok, fail_at, kind)
    \/ ClearScreenshots

SpecShot == InitSpecShot /\ [][NextShot]_vars

\* Two agent runs in one process whose tests call the module-level engine
InitSpecBugs ==
    /\ InitAPIFixed /\ InitMainIdle /\ InitReport
    /\ InitRun(Agents)
    /\ validate_output = FALSE
    /\ generate_gif = FALSE
    /\ InitExtIdle

\* The steps of a run without a page to monitor, whose one step finishes the
\* task and whose finally block meets no fault, up to its report
TestedStep(a) ==
    \/ StartRun(a, FALSE)
    \/ InitialActions(a, "none")
    \/ LoopTop(a)
    \/ CheckFlags(a)
    \/ Step(a, "done")
    \/ AfterStep(a, TRUE, "none")
    \/ Cleanup(a, NoFaults, TRUE)
    \/ TestingEngineStart(a)
    \/ TestingEngineReports(a)
    \/ TestingEngineReturns(a)
    \/ AdvancedTesting(a, 0)
    \/ RenderReport(a, NoFaults)

\* The engine is called once more for an agent whose run is over
LaterTesting(a) ==
    /\ run_pc[a] \in TerminalPcs
    /\ StartTesting(a) \/ AddBug(a) \/ FinishTesting(a)

NextBugs ==
    \/ \E a \in Agents : TestedStep(a)
    \/ \E a \in Agents : LaterTesting(a)

SpecBugs == InitSpecBugs /\ [][NextBugs]_vars

\* ------------------------------------------------------------------ claims
BothKeys == Truthy(gemini_key) /\ Truthy(grok_key)
OneKeyOnly == Truthy(gemini_key) /= Truthy(grok_key)
IsHQ(i) == calls[i].op = "handle_quota_error"

\* The quota errors the claims name: messages holding "429", "quota" or
\* "rate limit" in any letter case.
NamedQuotaMsgs == {Msg429, MsgQuota, MsgRateLimit}

\* C1: with both keys configured, a quota error passed to handle_quota_error
\* while current_provider = gemini flips it to grok and returns true, and a
\* quota error passed right afterwards flips it back to gemini and returns true.
C1_QuotaErrorsFlipAndFlipBack ==
    \A i \in 1..Len(calls) :
        (BothKeys /\ IsHQ(i) /\ calls[i].msg \in NamedQuotaMsgs /\ calls[i].before = "gemini")
        => /\ calls[i].after = "grok"
           /\ calls[i].ret = "True"
           /\ (i < Len(calls) /\ IsHQ(i + 1) /\ calls[i + 1].msg \in NamedQuotaMsgs)
              => (calls[i + 1].after = "gemini" /\ calls[i + 1].ret = "True")

C1_Witness ==
    /\ BothKeys
    /\ Len(calls) >= 2
    /\ IsHQ(1) /\ IsHQ(2)
    /\ calls[1].msg = Msg429 /\ calls[2].msg = MsgQuota
    /\ calls[1].before = "gemini" /\ calls[2].after = "gemini"

\* C2: with only one provider key configured, handle_quota_error never changes
\* current_provider and always returns false.
C2_SingleKeyNeverFlips ==
    \A i \in 1..Len(calls) :
        (OneKeyOnly /\ IsHQ(i))
        => (calls[i].ret = "False" /\ calls[i].after = calls[i].before)

ContainsNamedIndicator(msg) ==
    LET low == Lower(msg) IN
    \/ Contains(low, <<"q","u","o","t","a">>)
    \/ Contains(low, <<"4","2","9">>)
    \/ Contains(low, <<"r","a","t","e"," ","l","i","m","i","t">>)

ContainsCodeIndicator(msg) ==
    LET low == Lower(msg) IN
    \/ ContainsNamedIndicator(msg)
    \/ Contains(low, <<"l","i","m","i","t">>)
    \/ Contains(low, <<"e","x","c","e","e","d","e","d">>)
    \/ Contains(low, <<"t","o","o"," ","m","a","n","y"," ","r","e","q","u","e","s","t","s">>)

FallbackKeyAt(i) ==
    IF calls[i].before = "gemini" THEN Truthy(grok_key) ELSE Truthy(gemini_key)

\* C3 as stated: handle_quota_error returns true when the message holds
\* "quota", "429" or "rate limit" (any case) and the other provider's key is
\* configured; false when the message is unrelated to quota (holds none of the
\* three); false when no fallback key exists.
C3_FalseWhenUnrelatedToQuota ==
    \A i \in 1..Len(calls) :
        IsHQ(i) =>
            /\ (ContainsNamedIndicator(calls[i].msg) /\ FallbackKeyAt(i)) => calls[i].ret = "True"
            /\ ~ContainsNamedIndicator(calls[i].msg) => calls[i].ret = "False"
            /\ ~FallbackKeyAt(i) => calls[i].ret = "False"

\* C3 amended: handle_quota_error returns true when the message holds "quota",
\* "429" or "rate limit" (any case) and the other provider's key is configured;
\* false when the message holds none of the six indicators "quota", "limit",
\* "exceeded", "rate limit", "too many requests", "429"; false when no
\* fallback key exists.
C3_FalseWhenNoIndicator ==
    \A i \in 1..Len(calls) :
        IsHQ(i) =>
            /\ (ContainsNamedIndicator(calls[i].msg) /\ FallbackKeyAt(i)) => calls[i].ret = "True"
            /\ ~ContainsCodeIndicator(calls[i].msg) => calls[i].ret = "False"
            /\ ~FallbackKeyAt(i) => calls[i].ret = "False"

C3_Witness ==
    /\ Len(calls) = 3
    /\ IsHQ(1) /\ IsHQ(2) /\ IsHQ(3)
    /\ calls[1].msg = MsgQuota /\ calls[1].ret = "True"
    /\ calls[2].msg = MsgRefused /\ calls[2].ret = "False"
    /\ calls[3].msg = MsgRateLimit /\ calls[3].ret = "False" /\ ~FallbackKeyAt(3)

\* C5: one call of get_current_llm performs at most one provider switch and at
\* most two client constructions.
C5_AtMostOneSwitch ==
    \A i \in 1..Len(calls) :
        calls[i].op = "get_current_llm"
        => (calls[i].switches <= 1 /\ calls[i].attempts <= 2)

\* C4 as stated: at most 3 agent invocations; a failure is retried only when
\* handle_quota_error returned true for it, and the retry's client is of the
\* provider handle_quota_error switched to; a failure that is not retried is
\* surfaced as a run failure.
C4_RetryUsesProviderSwitchedTo ==
    /\ invocations <= 3
    /\ \A i \in 1..Len(failures_log) :
          LET f == failures_log[i] IN
          /\ f.retried => (f.hq_ret /\ f.attempt < 2 /\ f.agent_llm = f.switched_to)
          /\ ~f.retried => (i = Len(failures_log) /\ main_pc = "failed" /\ surfaced /= "None")

\* C4 amended: at most 3 agent invocations; a failure is retried only when
\* handle_quota_error returned true for it, and the retry's client is the one
\* get_current_llm returns, of the provider that is current after that call
\* (the provider switched to, unless its client cannot be constructed and
\* get_current_llm falls back); a failure that is not retried is surfaced as a
\* run failure.
C4_RetryUsesCurrentProvider ==
    /\ invocations <= 3
    /\ \A i \in 1..Len(failures_log) :
          LET f == failures_log[i] IN
          /\ f.retried => (f.hq_ret /\ f.attempt < 2 /\ f.agent_llm = f.provider
                           /\ (constructible[f.switched_to] => f.agent_llm = f.switched_to))
          /\ ~f.retried => (i = Len(failures_log) /\ main_pc = "failed" /\ surfaced /= "None")

C4_Witness ==
    /\ invocations = 3
    /\ Len(failures_log) = 3
    /\ failures_log[1].retried /\ failures_log[2].retried /\ ~failures_log[3].retried
    /\ failures_log[3].hq_ret
    /\ main_pc = "failed"

RECURSIVE SumLen(_, _)
SumLen(f, S) ==
    IF S = {} THEN 0
    ELSE LET c == CHOOSE x \in S : TRUE IN Len(f[c]) + SumLen(f, S \ {c})

\* C6: after any sequence of add_finding calls, summary.total_findings is the
\* number of finding entries over all categories, and findings[category] holds
\* as many entries as add_finding was called with that category.
C6_TotalFindingsMatches ==
    /\ summary.total_findings = SumLen(findings, DOMAIN findings)
    /\ \A c \in DOMAIN findings : Len(findings[c]) = finding_calls[c]

C6_Witness ==
    /\ Len(findings["errors"]) = 2
    /\ Len(findings["bugs"]) = 1
    /\ summary.total_findings = 3

Terminated(a) == run_pc[a] \in TerminalPcs

\* C7: on every exit path of run() the browser resources have been released,
\* the PDF report has been attempted and error monitoring has been stopped.
C7_CleanupOnEveryExit ==
    \A a \in Agents :
        Terminated(a)
        => /\ cleanup[a].closed
           /\ cleanup[a].pdf.attempted
           /\ cleanup[a].monitor_stopped

\* C8: the automatic report never raises out of run(): when assembling the
\* payload failed, the payload is the minimal all-zero one with the error
\* message in it; when rendering failed, the failure was logged and no
\* exception left _generate_automated_pdf_report.
C8_ReportNeverRaises ==
    \A a \in Agents :
        LET pdf == cleanup[a].pdf IN
        pdf.attempted
        => /\ ~pdf.raised
           /\ cleanup[a].raised_by /= "pdf_report"
           /\ Terminated(a) => cleanup[a].monitor_stopped
           /\ pdf.prep_failed
              => /\ pdf.payload.kind = "minimal"
                 /\ pdf.payload.total_tests = 0
                 /\ pdf.payload.passed_tests = 0
                 /\ pdf.payload.failed_tests = 0
                 /\ pdf.payload.error_tests = 0
                 /\ pdf.payload.error_embedded
           /\ pdf.render_failed => (pdf.logged_error /\ pdf.report = "None")

C8_Witness ==
    /\ run_pc["a1"] = "returned"
    /\ Len(history["a1"]) >= 2
    /\ cleanup["a1"].pdf.prep_failed
    /\ cleanup["a1"].pdf.render_failed

\* The step budget was used up without the task being done: max_steps steps
\* returned, the last of them did not report the task done, and the loop was
\* not left by an exception of what follows the last step (an Exception
\* leaves run(), a KeyboardInterrupt is the forced-interrupt exit).
BudgetExhausted(a) ==
    /\ Len(history[a]) >= MaxSteps
    /\ \A i \in 1..MaxSteps : history[a][i] /= MaxStepsEntry
    /\ history[a][MaxSteps].kind /= "done"
    /\ exit_reason[a] \notin {"exception", "interrupt"}

\* C9: at most max_steps steps are executed, and when the step budget is
\* exhausted without the task being done, the entry "Failed to complete task
\* in maximum steps" is the last of the history once the loop is left.
C9_AtMostMaxStepsThenFailureEntry ==
    \A a \in Agents :
        /\ steps_executed[a] <= MaxSteps
        /\ (BudgetExhausted(a) /\ run_pc[a] \in FinallyPcs \cup TerminalPcs)
           => /\ Len(history[a]) = MaxSteps + 1
              /\ history[a][MaxSteps + 1].error = FailedMaxSteps

C9_Witness ==
    /\ run_pc["a1"] = "returned"
    /\ steps_executed["a1"] = MaxSteps
    /\ BudgetExhausted("a1")
    /\ history["a1"][Len(history["a1"])].error = FailedMaxSteps

\* No further step once the threshold is reached, and the break concerns
\* that agent's run alone.
NoStepAfterThreshold ==
    [][\A a \in Agents :
         consecutive_failures[a] >= MaxFailures
         => /\ steps_executed'[a] = steps_executed[a]
            /\ history'[a] \in {history[a], Append(history[a], MaxStepsEntry)}
            /\ run_pc'[a] \notin {"step", "pause_wait"}
            /\ (run_pc[a] = "check" /\ run_pc'[a] /= "check")
               => /\ run_pc'[a] = "cleanup"
                  /\ exit_reason'[a] = "max_failures"
                  /\ \A b \in Agents \ {a} :
                        /\ run_pc'[b] = run_pc[b]
                        /\ stopped'[b] = stopped[b]
                        /\ paused'[b] = paused[b]
                        /\ history'[b] = history[b]]_vars

\* The run then ends, unless a pause holds it in wait_for_resume until the
\* user resumes.
EndsAfterThreshold ==
    \A a \in Agents :
        (consecutive_failures[a] >= MaxFailures)
        ~> (Terminated(a) \/ run_pc[a] = "wait_resume")

\* C10: once an agent's consecutive failures have reached the threshold, that
\* run executes no further step (its history gains at most the entry of the
\* exhausted budget) and ends, going nowhere but to its finally block, and
\* its leaving the loop changes nothing of another agent's run.
C10_ThresholdStopsOnlyThatRun == NoStepAfterThreshold /\ EndsAfterThreshold

C10_Witness ==
    /\ run_pc["a1"] = "returned"
    /\ exit_reason["a1"] = "max_failures"
    /\ consecutive_failures["a1"] = MaxFailures
    /\ steps_executed["a1"] = MaxFailures
    /\ run_pc["a2"] = "step"
    /\ steps_executed["a2"] = 0

\* The entries of a history that report the task done
DoneEntries(h) == Cardinality({i \in 1..Len(h) : h[i].kind = "done"})

\* C11 as stated: a failed validation makes the loop continue at most once
\* in a run.
C11_AtMostOneValidationRetry ==
    \A a \in Agents : validation_failures[a] <= 1

\* C11: with output validation enabled, every failed validation of a run that
\* reports itself done makes the loop continue while steps remain, so a run
\* continues after at most max_steps - 1 failed validations; on the last step
\* "done" is accepted unvalidated. Every step that reported the task done
\* either failed validation and was followed by another iteration, or ended
\* the run (accepted, or with an exception raised after the step).
C11_ValidationRetriesWhileStepsRemain ==
    \A a \in Agents :
        /\ validation_failures[a] <= MaxSteps - 1
        /\ validation_failures[a] > 0 => validate_output
        /\ DoneEntries(history[a]) \in {validation_failures[a], validation_failures[a] + 1}
        /\ exit_reason[a] = "done" => DoneEntries(history[a]) = validation_failures[a] + 1
        /\ (exit_reason[a] \notin {"done", "exception", "interrupt"}
            /\ run_pc[a] /= "after_step")
              => DoneEntries(history[a]) = validation_failures[a]

C11_Witness ==
    /\ validate_output
    /\ validation_failures["a1"] = MaxSteps - 1
    /\ exit_reason["a1"] = "done"
    /\ run_pc["a1"] = "returned"
    /\ steps_executed["a1"] = MaxSteps

\* C12: the run leaves its busy-wait on the paused flag for the next step
\* only once the paused flag has been cleared, and no step is started from
\* the wait while the flag is set.
C12_NoStepWhilePaused ==
    [][\A a \in Agents :
         (run_pc[a] = "pause_wait" /\ run_pc'[a] = "step") => ~paused[a]]_vars

FanOver == fan_pc \in {"collected", "raised"} /\ AllTasksOver

\* C13: in the fan-out of main and in that of vibetest_run, when an agent
\* task raised, the entry point still returns: the raising agents count as
\* errors and not as successes, and the history and the report of every agent
\* that did not raise are collected.
C13_SiblingResultsSurviveARaise ==
    (FanOver /\ SomeTaskRaised /\ SomeTaskReturned)
    => /\ fan_pc = "collected"
       /\ fan_out.errors = Cardinality({i \in FanIds : task_pc[i] = "raised"})
       /\ fan_out.ok <= Cardinality({i \in FanIds : task_pc[i] = "returned"})
       /\ \A i \in FanIds :
             task_pc[i] = "returned"
             => /\ \E k \in 1..Len(fan_out.histories) : fan_out.histories[k] = i
                /\ task_result[i].report /= "None"
                   => \E k \in 1..Len(fan_out.reports) : fan_out.reports[k] = i

OnlyOf(seq, a) == \A k \in 1..Len(seq) : seq[k] = a

\* C14: the errors and the screenshots in the report data of an agent's run
\* are those of that run: nothing collected during another agent's run
\* appears in them.
C14_ReportDataOfOwnRunOnly ==
    \A a \in Agents :
        report_data[a].prepared
        => /\ OnlyOf(report_data[a].errors, a)
           /\ OnlyOf(report_data[a].screenshots, a)

MainOver == main_exit /= "None" /\ main_pc \notin {"no_prompt", "no_keys"}

\* C16: the report of a CLI run is finalized exactly once, and no test step
\* and no finding is added and no summary counter changed after
\* finalize_report, whether main() ends on its success path or through its
\* outer handler.
C16_FinalizedOnceThenFrozen ==
    /\ finalize_count <= 1
    /\ ~mutated_after_final
    /\ MainOver => (finalize_count = 1 /\ end_time = "set")

\* C17: when a run of the crawler CLI has failed with an exception, a report
\* file has been written for it by the time the entry point is through, one
\* that holds the run's error.
C17_ReportWrittenForFailedRun ==
    (fan_mode = "cli" /\ fan_pc = "collected")
    => \A i \in FanIds :
          task_pc[i] = "raised"
          => \/ \E k \in 1..Len(fan_out.reports) : fan_out.reports[k] = i
             \/ /\ fan_out.combined = "path"
                /\ \E k \in 1..Len(fan_out.histories) : fan_out.histories[k] = i

RecoveryKeys == {recovery_key(t, a) : t \in ErrorTypes, a \in ActionInputs}

\* C18: no recovery key gets more than 3 recovery attempts: a call for a key
\* that has had 3 returns false, runs no strategy and counts nothing; a call
\* for a key below the cap counts one attempt for that key; and no call
\* changes the attempts counted for another key, nor counts anything when it
\* returns from its strategy.
C18_RecoveryCappedPerKey ==
    [][/\ recovery_calls' = recovery_calls + 1
          => LET c == last_recovery' IN
             /\ c.before = AttemptsOf(recovery_attempts, c.key)
             /\ c.before >= 3
                => /\ c.over /\ ~c.ret
                   /\ c.strategy = "none"
                   /\ recovery_attempts' = recovery_attempts
                   /\ recovery_pending' = recovery_pending
             /\ c.before < 3 => AttemptsOf(recovery_attempts', c.key) = c.before + 1
             /\ \A k \in RecoveryKeys :
                   k /= c.key
                   => AttemptsOf(recovery_attempts', k) = AttemptsOf(recovery_attempts, k)
       /\ recovery_calls' = recovery_calls => recovery_attempts' = recovery_attempts
       /\ \A k \in RecoveryKeys : AttemptsOf(recovery_attempts', k) <= 3]_vars

\* Three calls for one key await in their strategies, a fourth for that key
\* has been refused, and the call for another key has come back with True.
C18_Witness ==
    \E k1, k2 \in RecoveryKeys :
        /\ k1 /= k2
        /\ AttemptsOf(recovery_attempts, k1) = 3
        /\ AttemptsOf(recovery_attempts, k2) = 1
        /\ recovery_calls = 5
        /\ AttemptsOf(recovery_pending, k1) = 3
        /\ AttemptsOf(recovery_pending, k2) = 0
        /\ last_recovery.key = k2
        /\ last_recovery.strategy = "awaited"
        /\ last_recovery.ret

\* An iteration is at its page
AtPage == audit_pc \in {"page", "form"}

\* The pages gone to, the one under way with them, are within the budgets,
\* of the seed's origin and distinct.
CrawlWithinBounds ==
    /\ Cardinality(visited) <= max_pages
    /\ Len(pages_summary) + (IF AtPage THEN 1 ELSE 0) = Cardinality(visited)
    /\ AtPage => /\ audit_page.url \in visited
                 /\ origin_of(audit_page.url) = origin_of(start_url)
                 /\ audit_page.depth <= max_depth
                 /\ \A i \in 1..Len(pages_summary) :
                       pages_summary[i].url /= audit_page.url
    /\ \A i \in 1..Len(pages_summary) :
          /\ pages_summary[i].url \in visited
          /\ origin_of(pages_summary[i].url) = origin_of(start_url)
          /\ pages_summary[i].depth <= max_depth
          /\ \A j \in 1..Len(pages_summary) :
                pages_summary[i].url = pages_summary[j].url => i = j

\* What an iteration appends to the queue is a link of the page it went to,
\* one level deeper and not visited.
EnqueuedOneDeeper ==
    [][Len(pages_summary') = Len(pages_summary) + 1
       => LET d == pages_summary'[Len(pages_summary')].depth
              added == SubSeq(queue', Len(queue) + 1, Len(queue'))
          IN
          /\ SubSeq(queue', 1, Len(queue)) = queue
          /\ \A k \in 1..Len(added) :
                /\ added[k][2] = d + 1
                /\ added[k][1] \notin visited'
                /\ origin_of(added[k][1]) = origin_of(start_url)]_vars

\* C19: the audit terminates; it goes to at most max_pages pages, to each URL
\* at most once, to URLs of the seed's origin only and to no page deeper than
\* max_depth; and a link found on a page at depth d is enqueued at depth d+1,
\* and only if it is not visited.
C19_CrawlBoundedAndTerminates ==
    /\ []CrawlWithinBounds
    /\ EnqueuedOneDeeper
    /\ <>(audit_pc = "returned")

C19_Witness ==
    /\ audit_pc = "returned"
    /\ max_pages = MaxPagesInput
    /\ Cardinality(visited) = max_pages
    /\ queue /= <<>>
    /\ \E i \in 1..Len(pages_summary) : pages_summary[i].depth = max_depth

Probed == last_probe /= NoProbe
FirstAnswer == last_probe.chain[1]
Returns404 == Probed /\ FirstAnswer.kind = "response" /\ FirstAnswer.status = 404
Returns301Then200 ==
    /\ Probed /\ Len(last_probe.chain) = 2
    /\ IsRedirect(FirstAnswer) /\ FirstAnswer.status = 301
    /\ last_probe.chain[2].kind = "response" /\ last_probe.chain[2].status = 200
RaisesOnConnect == Probed /\ FirstAnswer.kind = "exception"

BrokenIsFailed ==
    Returns404 => /\ last_probe.recorded.status = "FAILED"
                  /\ last_probe.recorded.status_code = 404
UnreachableIsFailed ==
    RaisesOnConnect => /\ last_probe.recorded.status = "FAILED"
                       /\ last_probe.recorded.test_name = "Unreachable URL"
                       /\ last_probe.recorded.error = FirstAnswer.text
RedirectIsWarning ==
    Returns301Then200 => last_probe.recorded.status = "WARNING"

\* C20: a probed URL answering 404 is recorded FAILED with the status 404, one
\* answering 301 that redirects to a 200 response is recorded WARNING, and
\* one whose request raises is recorded FAILED "Unreachable URL" with the
\* exception's text.
C20_ProbeClassification ==
    /\ BrokenIsFailed
    /\ RedirectIsWarning
    /\ UnreachableIsFailed

\* The derivation in the words of the data model: the email has an "@" with a
\* dot somewhere after the last one, and the password has 8 characters or
\* more.
DerivedValid(email, password) ==
    /\ \E i \in 1..Len(email) :
          /\ email[i] = "@"
          /\ \A j \in (i + 1)..Len(email) : email[j] /= "@"
          /\ \E j \in (i + 1)..Len(email) : email[j] = "."
    /\ Len(password) >= 8

IsDerived(c) == c.is_valid = DerivedValid(c.email, c.password)

\* C21 as stated: every credential set held, built-in, added or imported, has
\* is_valid equal to the derived value.
C21_EverySetDerived ==
    \A i \in 1..Len(credential_sets) : IsDerived(credential_sets[i])

\* The built-in sets flagged invalid by hand although the derivation accepts
\* them: the payload is in a well-formed email or in a long password.
HandFlagged == {"XSS Email", "SQL Injection Password"}

\* C21, amended: every added or imported set has is_valid equal to the
\* derived value, and so has every built-in set but the two security probes
\* flagged invalid by hand; the three examples derive as stated.
C21_AddedAndImportedDerived ==
    /\ \A i \in 1..Len(credential_sets) :
          IF i <= Len(default_credentials) /\ credential_sets[i].name \in HandFlagged
          THEN ~credential_sets[i].is_valid /\ DerivedValid(credential_sets[i].email,
                                                             credential_sets[i].password)
          ELSE IsDerived(credential_sets[i])
    /\ validate_credentials(EmailUser, PasswordLong)
    /\ ~validate_credentials(EmailNotAnEmail, PasswordLong)
    /\ ~validate_credentials(EmailUser, PasswordShort)

C21_Witness ==
    /\ Len(credential_sets) = Len(default_credentials) + MaxAddedSets
    /\ \E i, j \in (Len(default_credentials) + 1)..Len(credential_sets) :
          /\ credential_sets[i].name = "custom" /\ credential_sets[i].is_valid
          /\ credential_sets[j].name = "imported" /\ ~credential_sets[j].is_valid
          /\ Len(credential_sets[j].password) >= 8

\* The acceptance of an observed result for an expected one, as stated.
Accepted(expected, actual) ==
    \/ actual = expected
    \/ expected = "validation_error" /\ actual = "required_error"
    \/ expected = "required_error" /\ actual = "validation_error"
    \/ expected = "authentication_error" /\ actual = "validation_error"

\* C22: a scenario passes exactly when the observed result is accepted for
\* its expected result: the expected category itself, required_error for an
\* expected validation_error, validation_error for an expected required_error
\* or authentication_error, and nothing else.
C22_PassesExactlyWhenAccepted ==
    \A i \in 1..Len(evaluations) :
        evaluations[i][3] = Accepted(evaluations[i][1], evaluations[i][2])

Tallied ==
    testing_stats.passed_tests + testing_stats.failed_tests
        + testing_stats.skipped_tests + testing_stats.error_tests

\* C29: after every completed call of execute_test_scenarios, total_tests is
\* the sum of the passed, failed, skipped and error counts, also on a tester
\* that runs several lists and when a scenario is retried after a recovery.
C29_StatisticsAddUp ==
    form_pc = "done" => testing_stats.total_tests = Tallied

IdsOfReturn(r) == {r[k].id : k \in 1..Len(r)}

\* C23: get_injected_errors drains the buffer of the page: an entry returned
\* by one call is not returned by a later call.
C23_InjectedEntriesReturnedOnce ==
    \A i, j \in 1..Len(injected_returns) :
        i < j => IdsOfReturn(injected_returns[i]) \cap IdsOfReturn(injected_returns[j]) = {}

RuntimeRecords(errs) ==
    Len(SelectSeq(errs, LAMBDA e : e.source = "javascript"))

\* C30: each exception event delivered while monitoring is active is recorded
\* once in the error list and once in the JavaScript-error channel.
C30_ExceptionRecordedOnce ==
    /\ RuntimeRecords(em_errors) = exception_events
    /\ Len(em_js_errors) = exception_events

CaptureCalled == capture_calls' = capture_calls + 1

\* C24: every capture call appends one record to the list, a failed one a
\* record with the error, and raises nothing.
C24_EveryCaptureAppends ==
    [][CaptureCalled =>
          /\ last_capture'.raised = "None"
          /\ captured' = Append(captured, last_capture'.record)]_vars

\* C25: when the stop flag is seen in the wait on the paused flag, the run
\* goes on to its end: it starts no step and runs no step hook.
C25_StopInPauseEndsRun ==
    [][\A a \in Agents :
         (run_pc[a] = "pause_wait" /\ stopped[a] /\ run_pc'[a] /= "pause_wait")
            => run_pc'[a] \in {"cleanup"} \cup TerminalPcs]_vars

Usable(p) == Truthy(KeyOf(p)) /\ constructible[p]

\* C26: whenever some provider has a configured key and a client for it can
\* be constructed, get_current_llm returns a client of a provider whose key
\* is configured; from the initial state and after any switches and quota
\* errors.
C26_ClientWheneverAKeyIsUsable ==
    \A i \in 1..Len(calls) :
        (calls[i].op = "get_current_llm" /\ \E p \in Providers : Usable(p))
        => (IsClient(calls[i].ret) /\ Truthy(KeyOf(calls[i].ret)))

\* C27: the bug list returned to an agent run holds exactly the bugs found
\* during that call and stays so, also when another run or a later call
\* starts run_comprehensive_testing.
C27_ReturnedBugsAreTheCallsOwn ==
    \A a \in Agents :
        engine_pc[a] = "returned" => enhanced_bugs(a) = found_in_call[a]

\* C28: after any add_test_step calls of the CLI and the history parser,
\* summary.total_tests is the number of recorded steps and the sum of the
\* passed, failed and warning counts.
C28_TotalIsStepsAndSumOfBuckets ==
    /\ summary.total_tests = Len(test_steps)
    /\ summary.total_tests = summary.passed + summary.failed + summary.warnings

====
